---- MODULE Spec2Model ----
(***************************************************************************)
(* One poller (DataUpdateCoordinator subclass) of the eBay integration     *)
(* together with the EbayAPI client it calls, the state store it persists  *)
(* to and the event bus it publishes on.                                   *)
(*                                                                         *)
(* Time is in seconds.  A poll cycle (_async_update_data) is one action:   *)
(* the remote responses, the store's load/save outcome and the clock are   *)
(* its inputs.  The cyc_* variables record the inputs of the most recent   *)
(* cycle and the state it started from; events is the bag of events that   *)
(* cycle published.                                                        *)
(***************************************************************************)
EXTENDS Integers, Sequences, FiniteSets, Bags, TLC

VARIABLES
    klass,              \* class of the poller: "bids", "purchases", "search"
    now,                \* wall clock, seconds
    ebay_username,      \* EbayAPI._ebay_username
    my_ebay_cache,      \* EbayAPI._my_ebay_cache
    my_ebay_cache_time, \* EbayAPI._my_ebay_cache_time
    oauth_token,        \* EbayAPI._oauth_token ("" for None)
    oauth_token_expires, \* EbayAPI._oauth_token_expires
    oauth_failed,       \* EbayAPI._oauth_failed
    previous_data,      \* coordinator._previous_data (bids, purchases)
    previous_item_ids,  \* coordinator._previous_item_ids (search)
    state_loaded,       \* coordinator._state_loaded
    ending_soon,        \* the _ending_soon_<item_id> attributes (bids)
    store,              \* the blob held by the coordinator's Store
    events,             \* bag of events fired on hass.bus in the last cycle
    cyc_prior,          \* _previous_data when the last cycle began its diff
    cyc_prior_ids,      \* _previous_item_ids when the last cycle began its diff
    cyc_saved,          \* the last cycle's async_save succeeded
    soon_log,           \* item id -> when auction_ending_soon last fired
    cyc_soon_log,       \* soon_log when the last cycle began
    cyc_fetched,        \* the list the last cycle got from the client
    cyc_fetch_failed,   \* a page request of the last cycle's own list failed
    cyc_lookups,        \* item id -> what get_item returned in the last cycle
    cyc_prev_fetched,   \* <<the list the cycle before the last one got>>
    seen_log,           \* ids this search poller object had in its seen-set
    first_eval,         \* <<an earlier cycle's snapshots and events>>, if marked
    uninterrupted,      \* <<the state of the poller object a restart replaced>>
    cyc_batch,          \* the records eBay returned to the last cycle's own
                        \*   requests: <<[item_id, well_formed]>>
    token_log,          \* whether a token request of this client has failed,
                        \*   had failed when the last cycle began, and whether
                        \*   the last cycle issued a token request
    running,            \* the callers whose execution of _async_update_data
                        \*   has begun and is suspended at an await
    cyc_continued,      \* <<the events that object would have fired in the
                        \*   last cycle>>, after a restart that lost nothing
                        \*   of its persisted state
    cyc_identity,       \* _ebay_username when the last get_my_ebay_buying
                        \*   began, and whether that call issued GetUser
    coordinator_data,   \* what the poller's last cycle returned
    watchlist_data,     \* what the watchlist poller's last cycle returned
    api_calls,          \* _api_calls: per API its count and last_reset
    cyc_call,           \* the last get_my_ebay_buying call: its caller, the
                        \*   age of the cache it met, the list requests it
                        \*   issued, whether it returned the stored result
    searches,           \* the keys of entry_data["searches"]
    search_coordinators, \* search id -> the EbaySearchCoordinator object
                        \*   built for it, with the config dict it shares
                        \*   with entry_data["searches"][id] and the sensor
                        \*   entities listening to it
    search_store,       \* what the Store "ebay_searches" holds:
                        \*   search id -> config
    search_state,       \* what the Stores "ebay_search_state_<id>" hold:
                        \*   search id -> list of item ids
    service_calls,      \* caller -> the create_search, update_search or
                        \*   delete_search call suspended at an await
    setup_pending,      \* the saved searches async_setup_entry has not yet
                        \*   restored, and those the sensor platform has
                        \*   not yet set up
    cyc_service,        \* the last service call that returned, with the
                        \*   registry, coordinators and stores it met
    deleted,            \* search id -> the number of cycles its coordinator
                        \*   had run when delete_search returned
    rate_info,          \* the last get_rate_limits or
                        \*   reset_rate_limit_tracking call of the client
                        \*   and what get_rate_limits returned
    client_calls,       \* task -> the get_my_ebay_buying or _get_oauth_token
                        \*   call it runs: where it is suspended, its local
                        \*   variables and, once it returned, its result
    client_log,         \* the fetch passes of get_my_ebay_buying that
                        \*   completed and the token responses that were
                        \*   stored, each with its time
    store_log,          \* the async_load attempts of the poller object so
                        \*   far, and the awaits of its last cycle in order
    forgotten           \* the bids that left the list while get_item
                        \*   reported them neither Completed nor Ended and
                        \*   have not been in a fetched list since

vars == <<klass, now, ebay_username, my_ebay_cache, my_ebay_cache_time,
          oauth_token, oauth_token_expires, oauth_failed,
          previous_data, previous_item_ids, state_loaded, ending_soon, store,
          events, cyc_prior, cyc_prior_ids, cyc_saved, soon_log, cyc_soon_log,
          cyc_fetched, cyc_fetch_failed, cyc_lookups, cyc_prev_fetched,
          seen_log, first_eval, uninterrupted, cyc_batch, token_log, running,
          cyc_continued, cyc_identity, coordinator_data, watchlist_data,
          api_calls,
          cyc_call, searches, search_coordinators, search_store, search_state,
          service_calls, setup_pending, cyc_service, deleted, rate_info,
          client_calls, client_log, store_log, forgotten>>

tradingVars == <<ebay_username, my_ebay_cache, my_ebay_cache_time>>
browseVars == <<oauth_token, oauth_token_expires, oauth_failed>>
bidsVars == <<ending_soon, soon_log, cyc_soon_log, cyc_lookups>>
registryVars == <<searches, search_coordinators, search_store, search_state,
                  service_calls, setup_pending, cyc_service, deleted>>
raceVars == <<client_calls, client_log>>
pollerVars == <<raceVars, store_log, forgotten, klass, tradingVars, bidsVars, previous_data, previous_item_ids,
                state_loaded, store, cyc_prior, cyc_prior_ids, cyc_saved,
                cyc_fetched, cyc_fetch_failed, cyc_prev_fetched, seen_log,
                first_eval, uninterrupted, cyc_batch, token_log, running,
                cyc_continued, cyc_identity, coordinator_data, watchlist_data,
                cyc_call>>

-----------------------------------------------------------------------------
(* Bounds of the model *)

MaxLen == 2       \* longest list one remote page carries
MaxNow == 990     \* no cycle starts after this time
MaxHistory == 3   \* size the search history is cut to; stands for the 1000
MaxRunning == 2   \* executions of one poller's cycle begun and not finished
MaxResults == 7   \* longest result list of the first-run specification
                  \* of EbaySearchCoordinator._async_update_data
MaxCacheNow == 60 \* no call of the cache specification starts after this time
LongInterval == 30 \* an update interval other than the default, minutes
MaxCalls == 3     \* calls of the client the tasks of the race specifications
                  \* begin

ItemIds == {"a", "b"}                       \* ids in the account's lists
SearchIds == {"a", "b", "c", "d", "e"}      \* ids a search may return
SearchUuids == {"u1", "u2"}                 \* values of uuid.uuid4()
Callers == {"t1", "t2"}                     \* tasks running service handlers

NoTime == -1            \* None where a time is expected
UnparsableTime == -2    \* a text datetime.fromisoformat rejects
DatetimeMax == 99999    \* datetime.max
DatetimeMin == -99999   \* datetime.min
NoUser == <<>>          \* None where a user name is expected
NoCache == <<>>         \* _my_ebay_cache is None; <<result>> when it is set
NoBlob == <<>>          \* the Store holds nothing; <<blob>> when it does

(* Names are sequences of characters so that lower() is computed. *)
AccountUserId == <<"A", "l">>
Names == {<<>>, <<"a", "L">>, <<"Z", "o">>}

(* EndTime of each listing on the marketplace *)
ListingEndTime == [id \in ItemIds |-> IF id = "a" THEN 1230 ELSE 600]

(* CreatedDate of the order transaction of each purchase on the marketplace;
   _parse_purchase_item reads no date of the transaction *)
TransactionTime == [id \in ItemIds |-> IF id = "a" THEN 100 ELSE 200]

-----------------------------------------------------------------------------
(* Program constants *)

STATE_RETENTION_DAYS == 60
MY_EBAY_CACHE_DURATION == 30
max_pages == 10
ENDING_SOON_MINUTES == 15
DEFAULT_UPDATE_INTERVAL == 15
ENDING_SOON_COOLDOWN == 600
FIRST_RUN_MAX_EVENTS == 5
HISTORY_LIMIT == 1000
OAUTH_EXPIRY_MARGIN == 300

-----------------------------------------------------------------------------
(* Pure helpers *)

LowerChar(c) ==
    CASE c = "A" -> "a"
      [] c = "L" -> "l"
      [] c = "Z" -> "z"
      [] c = "O" -> "o"
      [] OTHER -> c

Lower(s) == [i \in DOMAIN s |-> LowerChar(s[i])]

RECURSIVE SeqsUpTo(_, _)
SeqsUpTo(S, n) ==
    IF n = 0 THEN {<<>>}
    ELSE LET shorter == SeqsUpTo(S, n - 1)
         IN shorter \cup {Append(s, x) : s \in {t \in shorter : Len(t) = n - 1}, x \in S}

Ids(list) == {list[i].item_id : i \in DOMAIN list}

Occurrences(list, id) == Cardinality({i \in DOMAIN list : list[i].item_id = id})

(* {item["item_id"]: item for item in list}: the last entry of an id wins *)
LastIndex(list, id) ==
    CHOOSE i \in DOMAIN list :
        /\ list[i].item_id = id
        /\ \A j \in DOMAIN list : list[j].item_id = id => j <= i

ItemMap(list) == [id \in Ids(list) |-> list[LastIndex(list, id)]]

EmptyMap == [id \in {} |-> id]

Event(kind, id) == [kind |-> kind, item_id |-> id]
One(kind, id) == SetToBag({Event(kind, id)})
Count(kind, id) == CopiesIn(Event(kind, id), events)

-----------------------------------------------------------------------------
(* EbayAPI: the Trading API lists (GetMyeBayBuying) *)

(* _parse_trading_item, item_type "bid": the fields the pollers read *)
ParseTradingItem(raw, username) ==
    [item_id |-> raw.item_id,
     is_high_bidder |-> /\ raw.high_bidder # <<>>
                        /\ username # NoUser
                        /\ Lower(raw.high_bidder) = Lower(username),
     end_time |-> raw.end_time]

(* The lower-case words the status texts of the model contain
   ("shipped" in status.lower() and the like) *)
WordsIn(text) ==
    CASE text = "Shipped" -> {"ship", "shipped"}
      [] text = "Delivered" -> {"deliver", "delivered"}
      [] text = "Completed" -> {"complete"}
      [] text = "Active" -> {"active"}
      [] OTHER -> {}

(* _parse_purchase_item: shipping_status from Status/ShippingStatus when the
   OrderTransaction has no Order element, else from OrderStatus and the
   tracking number; ShippedTime is the last resort. *)
ShippingStatus(raw) ==
    LET words == WordsIn(raw.status)
        first == IF ~raw.has_order
                 THEN IF "shipped" \in words THEN "shipped"
                      ELSE IF "delivered" \in words THEN "delivered"
                      ELSE "pending"
                 ELSE LET by_status ==
                              IF "shipped" \in words \/ "ship" \in words THEN "shipped"
                              ELSE IF "delivered" \in words \/ "deliver" \in words
                              THEN "delivered"
                              ELSE IF "complete" \in words THEN "delivered"
                              ELSE IF "active" \in words THEN "shipped"
                              ELSE "pending"
                      IN IF raw.tracking /\ by_status = "pending" THEN "shipped"
                         ELSE by_status
    IN IF first = "pending" /\ raw.shipped_time THEN "shipped" ELSE first

ParsePurchaseItem(raw) ==
    [item_id |-> raw.item_id, shipping_status |-> ShippingStatus(raw)]

(* Whether _parse_bid_list / _parse_won_list returns: a record with a price,
   feedback score or bid count that is no number makes float() or int()
   raise, and neither the item parser nor the list parser catches it *)
PageParses(items) == \A i \in DOMAIN items : items[i].well_formed

(* _parse_trading_item, item_type "watch" *)
ParseWatchItem(raw) == [item_id |-> raw.item_id, end_time |-> raw.end_time]

ParsePage(list_type, items, username) ==
    IF list_type = "BidList"
    THEN [i \in DOMAIN items |-> ParseTradingItem(items[i], username)]
    ELSE IF list_type = "WonList"
    THEN [i \in DOMAIN items |-> ParsePurchaseItem(items[i])]
    ELSE [i \in DOMAIN items |-> ParseWatchItem(items[i])]

(* The response to the request for page n: a request past the last page the
   remote holds is answered with an error. *)
PageAt(pages, n) ==
    IF n <= Len(pages) THEN pages[n]
    ELSE [status |-> "500", items |-> <<>>, total_pages |-> 0]

(* _fetch_my_ebay_list: the while loop from page_number on.  A page whose
   status is not 200, or whose request or parsing raises ("exc"), ends the
   loop with the items of the pages before it; total_pages = 0 stands for a
   response without TotalNumberOfPages. *)
RECURSIVE FetchPages(_, _, _, _, _)
FetchPages(list_type, pages, page_number, all_items, username) ==
    IF page_number > max_pages THEN all_items
    ELSE LET response == PageAt(pages, page_number)
             extended == all_items \o ParsePage(list_type, response.items, username)
         IN IF response.status # "200" THEN all_items
            ELSE IF ~PageParses(response.items) THEN all_items
            ELSE IF response.total_pages = 0 THEN extended
            ELSE IF page_number >= response.total_pages THEN extended
            ELSE FetchPages(list_type, pages, page_number + 1, extended, username)

FetchMyEbayList(list_type, pages, username) ==
    FetchPages(list_type, pages, 1, <<>>, username)

(* The records of the pages the loop of _fetch_my_ebay_list was answered
   with, from page_number on *)
RECURSIVE BatchFrom(_, _)
BatchFrom(pages, page_number) ==
    IF page_number > max_pages THEN <<>>
    ELSE LET response == PageAt(pages, page_number)
             records == [i \in DOMAIN response.items |->
                            [item_id |-> response.items[i].item_id,
                             well_formed |-> response.items[i].well_formed]]
         IN IF response.status # "200" THEN <<>>
            ELSE IF ~PageParses(response.items) THEN records
            ELSE IF response.total_pages = 0 THEN records
            ELSE IF page_number >= response.total_pages THEN records
            ELSE records \o BatchFrom(pages, page_number + 1)

(* The requests the loop of _fetch_my_ebay_list issues from page_number on,
   each counted by _track_api_call("trading") *)
RECURSIVE RequestsFrom(_, _)
RequestsFrom(pages, page_number) ==
    IF page_number > max_pages THEN 0
    ELSE LET response == PageAt(pages, page_number)
         IN IF response.status # "200" THEN 1
            ELSE IF ~PageParses(response.items) THEN 1
            ELSE IF response.total_pages = 0 THEN 1
            ELSE IF page_number >= response.total_pages THEN 1
            ELSE 1 + RequestsFrom(pages, page_number + 1)

(* Whether the loop of _fetch_my_ebay_list met a failing page request. *)
RECURSIVE PagesFailFrom(_, _)
PagesFailFrom(pages, page_number) ==
    IF page_number > max_pages THEN FALSE
    ELSE LET response == PageAt(pages, page_number)
         IN IF response.status # "200" THEN TRUE
            ELSE IF response.total_pages = 0 THEN FALSE
            ELSE IF page_number >= response.total_pages THEN FALSE
            ELSE PagesFailFrom(pages, page_number + 1)

NoIdentityLog == [before |-> NoUser, requested |-> FALSE]

(* IdentityRequested as it would be if GetUser were called every time *)
IdentityRequested_Always == TRUE

(* get_my_ebay_buying: whether it issues the GetUser call *)
IdentityRequested == ebay_username = NoUser

(* _get_authenticated_username: the value of _ebay_username afterwards *)
GetAuthenticatedUsername(username, user_resp) ==
    IF username # NoUser THEN username
    ELSE IF user_resp.status # "200" THEN NoUser
    ELSE IF user_resp.ack = "Failure" THEN NoUser
    ELSE user_resp.user_id

(* CacheIsFresh as it would be if a cache of exactly the cache duration
   were still used *)
CacheIsFresh_Inclusive(t) ==
    /\ my_ebay_cache # NoCache
    /\ my_ebay_cache_time # NoTime
    /\ t - my_ebay_cache_time <= MY_EBAY_CACHE_DURATION

(* The cache test of get_my_ebay_buying at time t *)
CacheIsFresh(t) ==
    /\ my_ebay_cache # NoCache
    /\ my_ebay_cache_time # NoTime
    /\ t - my_ebay_cache_time < MY_EBAY_CACHE_DURATION

(* get_my_ebay_buying: what it returns and what it leaves in the client.
   remote holds the pages the marketplace would answer with for each list. *)
GetMyEbayBuying(remote, user_resp, t) ==
    LET username == IF IdentityRequested
                    THEN GetAuthenticatedUsername(ebay_username, user_resp)
                    ELSE ebay_username
        result == [bids |-> FetchMyEbayList("BidList", remote.bids, username),
                   watchlist |-> FetchMyEbayList("WatchList", remote.watchlist, username),
                   purchases |-> FetchMyEbayList("WonList", remote.purchases, username)]
    IN IF CacheIsFresh(t)
       THEN [result |-> my_ebay_cache[1], username |-> username, fetched |-> FALSE,
             cache |-> my_ebay_cache, cache_time |-> my_ebay_cache_time,
             requests |-> 0]
       ELSE [result |-> result, username |-> username, fetched |-> TRUE,
             cache |-> <<result>>, cache_time |-> t,
             requests |-> RequestsFrom(remote.bids, 1)
                          + RequestsFrom(remote.watchlist, 1)
                          + RequestsFrom(remote.purchases, 1)]

-----------------------------------------------------------------------------
(* EbayAPI: the local call tracking *)

Apis == {"browse", "trading", "shopping"}

(* _api_calls as __init__ and reset_rate_limit_tracking build it at time t *)
FreshCalls(t) == [api \in Apis |-> [count |-> 0, last_reset |-> t]]

(* _track_api_call(api_name), n times *)
TrackApiCall_Restart(calls, api_name, n) ==
    IF api_name \in DOMAIN calls
    THEN [calls EXCEPT ![api_name].count = n]
    ELSE calls

(* _track_api_call(api_name), n times *)
TrackApiCall(calls, api_name, n) ==
    IF api_name \in DOMAIN calls
    THEN [calls EXCEPT ![api_name].count = @ + n]
    ELSE calls

(* What get_rate_limits returns at time t: the earliest last_reset, the
   time, the count of each API and their sum *)
RateLimits(calls, t) ==
    [tracking_start |->
        CHOOSE r \in {calls[api].last_reset : api \in Apis} :
            \A api \in Apis : r <= calls[api].last_reset,
     current_time |-> t,
     calls_made |-> [api \in Apis |-> calls[api].count],
     total_calls |-> calls["browse"].count + calls["trading"].count
                     + calls["shopping"].count]

NoRateInfo ==
    [op |-> "", at |-> 0, returned |-> RateLimits(FreshCalls(0), 0)]

NoCall == [caller |-> "", had_cache |-> FALSE, age |-> NoTime, requests |-> 0,
           returned_stored |-> FALSE]

(* What the get_my_ebay_buying call of caller at time t met and did *)
CallRecord(caller, got, t) ==
    [caller |-> caller,
     had_cache |-> my_ebay_cache # NoCache,
     age |-> IF my_ebay_cache_time = NoTime THEN NoTime
             ELSE t - my_ebay_cache_time,
     requests |-> got.requests,
     returned_stored |-> /\ my_ebay_cache # NoCache
                         /\ got.result = my_ebay_cache[1]]

-----------------------------------------------------------------------------
(* EbayAPI: the Shopping API lookup (GetSingleItem) *)

EmptyItem == [kind |-> "empty", listing_status |-> "", high_bidder_username |-> <<>>]

(* _parse_shopping_item: the fields the bids poller reads *)
ParseShoppingItem(item) ==
    [kind |-> "item",
     listing_status |-> item.ListingStatus,
     high_bidder_username |-> item.HighBidder]

(* get_item: {} on a non-200 status, on a body without "Item" and on any
   exception; it never raises. *)
GetItem(resp) ==
    IF resp.status = "exc" THEN EmptyItem
    ELSE IF resp.status # "200" THEN EmptyItem
    ELSE IF resp.has_item THEN ParseShoppingItem(resp)
    ELSE EmptyItem

-----------------------------------------------------------------------------
(* EbayAPI: the Browse API search *)

NoToken == ""

(* TokenRequested as it would be if a failed request were tried again *)
TokenRequested_Retry(t) ==
    ~(/\ oauth_token # NoToken
      /\ oauth_token_expires # NoTime
      /\ t < oauth_token_expires)

(* _get_oauth_token at time t: whether it posts a request to the token
   endpoint *)
TokenRequested(t) ==
    /\ ~(/\ oauth_token # NoToken
         /\ oauth_token_expires # NoTime
         /\ t < oauth_token_expires)
    /\ ~oauth_failed

(* _get_oauth_token at time t: the token it returns and the client's fields
   afterwards.  resp is the token endpoint's answer; access_token is "" when
   the body carries none. *)
GetOAuthToken(resp, t) ==
    IF /\ oauth_token # NoToken
       /\ oauth_token_expires # NoTime
       /\ t < oauth_token_expires
    THEN [token |-> oauth_token, oauth_token |-> oauth_token,
          expires |-> oauth_token_expires, failed |-> oauth_failed]
    ELSE IF ~TokenRequested(t)
    THEN [token |-> NoToken, oauth_token |-> oauth_token,
          expires |-> oauth_token_expires, failed |-> oauth_failed]
    ELSE IF resp.status # "200"
    THEN [token |-> NoToken, oauth_token |-> oauth_token,
          expires |-> oauth_token_expires, failed |-> TRUE]
    ELSE [token |-> resp.access_token, oauth_token |-> resp.access_token,
          expires |-> t + resp.expires_in - OAUTH_EXPIRY_MARGIN,
          failed |-> oauth_failed]

(* _parse_browse_item: {} when parsing the summary raises *)
ParseBrowseItem(summary) ==
    [item_id |-> summary.itemId, parsed |-> summary.well_formed,
     end_time |-> summary.itemEndDate]

(* The "for item in item_summaries" loop: an item that did not parse is
   left out *)
ParseBrowseItems(summaries) ==
    LET IsParsed(item) == item.parsed
    IN SelectSeq([i \in DOMAIN summaries |-> ParseBrowseItem(summaries[i])],
                 IsParsed)

(* The item summaries _search_items_browse was answered with *)
SearchBatch(token, resp) ==
    IF token = NoToken \/ resp.status # "200" \/ ~resp.json_ok \/ resp.errors
    THEN <<>>
    ELSE [i \in DOMAIN resp.itemSummaries |->
             [item_id |-> resp.itemSummaries[i].itemId,
              well_formed |-> resp.itemSummaries[i].well_formed]]

(* SearchItems as it would be without the test of the errors list *)
SearchItems_IgnoreErrors(token, resp) ==
    IF token = NoToken THEN <<>>
    ELSE IF resp.status # "200" THEN <<>>
    ELSE IF ~resp.json_ok THEN <<>>
    ELSE ParseBrowseItems(resp.itemSummaries)

(* _search_items_browse: [] without a token, on a non-200 status, on an
   exception, on a body that is no JSON and on a body with errors *)
SearchItems(token, resp) ==
    IF token = NoToken THEN <<>>
    ELSE IF resp.status # "200" THEN <<>>
    ELSE IF ~resp.json_ok THEN <<>>
    ELSE IF resp.errors THEN <<>>
    ELSE ParseBrowseItems(resp.itemSummaries)

-----------------------------------------------------------------------------
(* coordinator.py: helpers shared by the pollers *)

TimeStr(item) == IF "end_time" \in DOMAIN item THEN item.end_time ELSE NoTime

(* The place of items[i] in sorted(items, key=...), keys[i] being its key:
   sorted is stable, so equal keys stay in the order of the list *)
SortedPlace(keys, i) ==
    1 + Cardinality({j \in DOMAIN keys :
                        \/ keys[j] < keys[i]
                        \/ keys[j] = keys[i] /\ j < i})

(* The same for sorted(items, key=..., reverse=True), which keeps equal
   keys in the order of the list as well *)
SortedPlaceReverse(keys, i) ==
    1 + Cardinality({j \in DOMAIN keys :
                        \/ keys[j] > keys[i]
                        \/ keys[j] = keys[i] /\ j < i})

(* get_end_time as it would be with datetime.min for a missing end time *)
GetEndTime_MissingFirst(item) ==
    LET end_time_str == TimeStr(item)
    IN IF end_time_str = NoTime THEN DatetimeMin
       ELSE IF end_time_str = UnparsableTime THEN DatetimeMin
       ELSE end_time_str

(* get_end_time of _sort_by_end_time *)
GetEndTime(item) ==
    LET end_time_str == TimeStr(item)
    IN IF end_time_str = NoTime THEN DatetimeMax
       ELSE IF end_time_str = UnparsableTime THEN DatetimeMax
       ELSE end_time_str

(* _sort_by_end_time *)
SortByEndTime(items) ==
    LET keys == [i \in DOMAIN items |-> GetEndTime(items[i])]
    IN IF Len(items) <= 1 THEN items
       ELSE [p \in DOMAIN items |->
                items[CHOOSE i \in DOMAIN items : SortedPlace(keys, i) = p]]

(* item.get(name), None when the item has no such field *)
Field(item, name) == IF name \in DOMAIN item THEN item[name] ELSE NoTime

(* get_purchase_time of _sort_by_purchase_date *)
GetPurchaseTime(item) ==
    LET time_str == IF Field(item, "purchase_date") # NoTime
                    THEN Field(item, "purchase_date")
                    ELSE IF Field(item, "end_time") # NoTime
                    THEN Field(item, "end_time")
                    ELSE Field(item, "updated_at")
    IN IF time_str = NoTime THEN DatetimeMin
       ELSE IF time_str = UnparsableTime THEN DatetimeMin
       ELSE time_str

(* _sort_by_purchase_date *)
SortByPurchaseDate(items) ==
    LET keys == [i \in DOMAIN items |-> GetPurchaseTime(items[i])]
    IN IF Len(items) <= 1 THEN items
       ELSE [p \in DOMAIN items |->
                items[CHOOSE i \in DOMAIN items :
                         SortedPlaceReverse(keys, i) = p]]

(* 'item.get("end_time") or item.get("updated_at")' *)
CleanTimeStr(item) ==
    IF Field(item, "end_time") # NoTime THEN Field(item, "end_time")
    ELSE Field(item, "updated_at")

(* _clean_old_items when datetime.now() returns local_now, the wall clock of
   the host: an entry without a timestamp or with one that does not parse is
   kept; a timestamp that parses is taken with its UTC offset discarded
   ("item_time.replace(tzinfo=None)": the wall clock of UTC for the times of
   the lists) and the entry is kept when that is later than the cutoff *)
CleanOldItems(data, local_now) ==
    LET cutoff == local_now - STATE_RETENTION_DAYS * 86400
        kept == {id \in DOMAIN data :
                    \/ CleanTimeStr(data[id]) \in {NoTime, UnparsableTime}
                    \/ CleanTimeStr(data[id]) > cutoff}
    IN [id \in kept |-> data[id]]

(* The same block reading what the Store holds although the load failed *)
LoadPreviousData_Stale(load_ok, t) ==
    IF state_loaded THEN previous_data
    ELSE IF store # NoBlob
    THEN CleanOldItems(store[1].previous_data, t)
    ELSE previous_data

(* The "load previous state on first run" block of _async_update_data:
   the value of _previous_data after it, at time t. *)
LoadPreviousData(load_ok, t) ==
    IF state_loaded THEN previous_data
    ELSE IF load_ok /\ store # NoBlob
    THEN CleanOldItems(store[1].previous_data, t)
    ELSE previous_data

(* ReplacePreviousData as an update that keeps the entries of items the
   fetched list no longer holds *)
ReplacePreviousData_Merge(prior, fetched) ==
    [id \in DOMAIN prior \cup Ids(fetched) |->
        IF id \in Ids(fetched) THEN ItemMap(fetched)[id] ELSE prior[id]]

(* "self._previous_data = {item["item_id"]: item for item in ...}" *)
ReplacePreviousData(prior, fetched) == ItemMap(fetched)

(* "await self._store.async_save(...)" inside its own try/except *)
SaveState(blob, save_ok) == IF save_ok THEN <<blob>> ELSE store

(* The sum of the bags f[x], x in S *)
RECURSIVE BagSum(_, _)
BagSum(f, S) ==
    IF S = {} THEN EmptyBag
    ELSE LET x == CHOOSE y \in S : TRUE
         IN f[x] (+) BagSum(f, S \ {x})

-----------------------------------------------------------------------------
(* EbayBidsCoordinator *)

(* CheckEndingSoon as it would be without the test on last_fired *)
CheckEndingSoon_NoCooldown(bid, soon, t) ==
    IF bid.end_time = NoTime THEN [fire |-> FALSE, soon |-> soon]
    ELSE LET seconds_remaining == bid.end_time - t
         IN IF /\ 0 < seconds_remaining
               /\ seconds_remaining <= ENDING_SOON_MINUTES * 60
            THEN [fire |-> TRUE, soon |-> [soon EXCEPT ![bid.item_id] = t]]
            ELSE [fire |-> FALSE, soon |-> soon]

(* _check_ending_soon at time t: whether the event fires, and the
   _ending_soon_<id> attributes afterwards.  A bid without end_time raises
   inside the try block and nothing happens. *)
CheckEndingSoon(bid, soon, t) ==
    IF bid.end_time = NoTime THEN [fire |-> FALSE, soon |-> soon]
    ELSE LET seconds_remaining == bid.end_time - t
             last_fired == soon[bid.item_id]
         IN IF /\ 0 < seconds_remaining
               /\ seconds_remaining <= ENDING_SOON_MINUTES * 60
               /\ \/ last_fired = NoTime
                  \/ t - last_fired > ENDING_SOON_COOLDOWN
            THEN [fire |-> TRUE, soon |-> [soon EXCEPT ![bid.item_id] = t]]
            ELSE [fire |-> FALSE, soon |-> soon]

(* HighBidderEvents as it would be if the ending-soon cooldown guarded the
   high-bidder events as well *)
HighBidderEvents_Cooldown(bid, previous) ==
    IF ending_soon[bid.item_id] # NoTime THEN EmptyBag
    ELSE IF bid.is_high_bidder /\ ~previous.is_high_bidder
    THEN One("became_high_bidder", bid.item_id)
    ELSE IF ~bid.is_high_bidder /\ previous.is_high_bidder
    THEN One("outbid", bid.item_id)
    ELSE EmptyBag

(* The if/elif on current_high and previous_high *)
HighBidderEvents(bid, previous) ==
    IF bid.is_high_bidder /\ ~previous.is_high_bidder
    THEN One("became_high_bidder", bid.item_id)
    ELSE IF ~bid.is_high_bidder /\ previous.is_high_bidder
    THEN One("outbid", bid.item_id)
    ELSE EmptyBag

(* The loop taking a bid that is not in the prior state for one that was
   not the high bid before *)
RECURSIVE BidLoop_NewAsLow(_, _, _, _, _, _)
BidLoop_NewAsLow(current_bids, i, prev, soon, t, fired) ==
    IF i > Len(current_bids) THEN [events |-> fired, soon |-> soon]
    ELSE LET bid == current_bids[i]
             es == CheckEndingSoon(bid, soon, t)
             changes == IF bid.item_id \in DOMAIN prev
                        THEN HighBidderEvents(bid, prev[bid.item_id])
                        ELSE HighBidderEvents(bid, [is_high_bidder |-> FALSE])
             soon_event == IF es.fire
                           THEN One("auction_ending_soon", bid.item_id)
                           ELSE EmptyBag
         IN BidLoop_NewAsLow(current_bids, i + 1, prev, es.soon, t,
                             fired (+) changes (+) soon_event)

(* The "for bid in current_bids" loop from index i on *)
RECURSIVE BidLoop(_, _, _, _, _, _)
BidLoop(current_bids, i, prev, soon, t, fired) ==
    IF i > Len(current_bids) THEN [events |-> fired, soon |-> soon]
    ELSE LET bid == current_bids[i]
             es == CheckEndingSoon(bid, soon, t)
             changes == IF bid.item_id \in DOMAIN prev
                        THEN HighBidderEvents(bid, prev[bid.item_id])
                        ELSE EmptyBag
             soon_event == IF es.fire
                           THEN One("auction_ending_soon", bid.item_id)
                           ELSE EmptyBag
         IN BidLoop(current_bids, i + 1, prev, es.soon, t,
                    fired (+) changes (+) soon_event)

(* ResolveEnded as it would be without the listing_status test: every
   record get_item returns counts as an ended auction. *)
ResolveEnded_AnyStatus(item_id, previous, final_item, username) ==
    IF final_item.kind = "item"
    THEN IF /\ final_item.high_bidder_username # <<>>
            /\ username # NoUser
            /\ Lower(final_item.high_bidder_username) = Lower(username)
         THEN One("auction_won", item_id)
         ELSE One("auction_lost", item_id)
    ELSE IF previous.is_high_bidder THEN One("auction_won", item_id)
         ELSE One("auction_lost", item_id)

(* ResolveEnded comparing the user names without lower() *)
ResolveEnded_CaseSensitive(item_id, previous, final_item, username) ==
    IF final_item.kind = "item"
    THEN IF final_item.listing_status \in {"Completed", "Ended"}
         THEN IF /\ final_item.high_bidder_username # <<>>
                 /\ username # NoUser
                 /\ final_item.high_bidder_username = username
              THEN One("auction_won", item_id)
              ELSE One("auction_lost", item_id)
         ELSE EmptyBag
    ELSE IF previous.is_high_bidder THEN One("auction_won", item_id)
         ELSE One("auction_lost", item_id)

(* ResolveEnded with a fallback that reports every unverified auction lost *)
ResolveEnded_FallbackLost(item_id, previous, final_item, username) ==
    IF final_item.kind = "item"
    THEN IF final_item.listing_status \in {"Completed", "Ended"}
         THEN IF /\ final_item.high_bidder_username # <<>>
                 /\ username # NoUser
                 /\ Lower(final_item.high_bidder_username) = Lower(username)
              THEN One("auction_won", item_id)
              ELSE One("auction_lost", item_id)
         ELSE EmptyBag
    ELSE One("auction_lost", item_id)

(* The body of "for item_id in ended_ids" for one item: final_item is what
   get_item returned. *)
ResolveEnded(item_id, previous, final_item, username) ==
    IF final_item.kind = "item"
    THEN IF final_item.listing_status \in {"Completed", "Ended"}
         THEN LET high_bidder == final_item.high_bidder_username
                  you_won == /\ high_bidder # <<>>
                             /\ username # NoUser
                             /\ Lower(high_bidder) = Lower(username)
              IN IF you_won THEN One("auction_won", item_id)
                 ELSE One("auction_lost", item_id)
         ELSE EmptyBag
    ELSE IF previous.is_high_bidder THEN One("auction_won", item_id)
         ELSE One("auction_lost", item_id)

(* _check_bid_changes leaving the ended-auctions loop at the first lookup
   that fails *)
CheckBidChanges_StopAtFailure(current_bids, prev, lookups, username, soon, t) ==
    LET loop == BidLoop(current_bids, 1, prev, soon, t, EmptyBag)
        ended_ids == DOMAIN prev \ Ids(current_bids)
        resolved == [id \in ended_ids |->
                        IF \E other \in ended_ids : lookups[other].kind # "item"
                        THEN EmptyBag
                        ELSE ResolveEnded(id, prev[id], lookups[id], username)]
    IN [events |-> loop.events (+) BagSum(resolved, ended_ids),
        soon |-> loop.soon]

(* _check_bid_changes *)
CheckBidChanges(current_bids, prev, lookups, username, soon, t) ==
    LET loop == BidLoop(current_bids, 1, prev, soon, t, EmptyBag)
        ended_ids == DOMAIN prev \ Ids(current_bids)
        resolved == [id \in ended_ids |->
                        ResolveEnded(id, prev[id], lookups[id], username)]
    IN [events |-> loop.events (+) BagSum(resolved, ended_ids),
        soon |-> loop.soon]

-----------------------------------------------------------------------------
(* EbayPurchasesCoordinator *)

(* The if/elif on current_status and previous_status *)
ShippingEvents(purchase, previous) ==
    IF purchase.shipping_status = "shipped" /\ previous.shipping_status # "shipped"
    THEN One("item_shipped", purchase.item_id)
    ELSE IF /\ purchase.shipping_status = "delivered"
            /\ previous.shipping_status # "delivered"
    THEN One("item_delivered", purchase.item_id)
    ELSE EmptyBag

(* _check_shipping_changes: the "for purchase in current_purchases" loop
   from index i on.  The event of a purchase seen for the first time is
   named after the constant EVENT_NEW_PURCHASE the module imports (const.py
   gives it no value). *)
RECURSIVE CheckShippingChanges(_, _, _, _)
CheckShippingChanges(current_purchases, i, prev, fired) ==
    IF i > Len(current_purchases) THEN fired
    ELSE LET purchase == current_purchases[i]
             changes == IF purchase.item_id \notin DOMAIN prev
                        THEN One("new_purchase", purchase.item_id)
                        ELSE ShippingEvents(purchase, prev[purchase.item_id])
         IN CheckShippingChanges(current_purchases, i + 1, prev, fired (+) changes)

-----------------------------------------------------------------------------
(* EbaySearchCoordinator *)

RECURSIVE CheckNewItems_NoCap(_, _, _, _, _)
CheckNewItems_NoCap(current_results, i, prev_ids, event_count, fired) ==
    IF i > Len(current_results) THEN fired
    ELSE LET item == current_results[i]
         IN IF item.item_id \in prev_ids
            THEN CheckNewItems_NoCap(current_results, i + 1, prev_ids,
                                     event_count, fired)
            ELSE CheckNewItems_NoCap(current_results, i + 1, prev_ids,
                                     event_count + 1,
                                     fired (+) One("new_search_result", item.item_id))

(* _check_new_items: the "for item in current_results" loop from index i
   on; event_count events have fired so far *)
RECURSIVE CheckNewItems(_, _, _, _, _)
CheckNewItems(current_results, i, prev_ids, event_count, fired) ==
    IF i > Len(current_results) THEN fired
    ELSE LET item == current_results[i]
             new_ids == Ids(current_results) \ prev_ids
         IN IF item.item_id \notin new_ids
            THEN CheckNewItems(current_results, i + 1, prev_ids, event_count, fired)
            ELSE IF prev_ids = {} /\ event_count >= FIRST_RUN_MAX_EVENTS
            THEN CheckNewItems(current_results, i + 1, prev_ids, event_count, fired)
            ELSE CheckNewItems(current_results, i + 1, prev_ids, event_count + 1,
                               fired (+) One("new_search_result", item.item_id))

MergeItemIds_Replace(prev_ids, results) == Ids(results)

(* "self._previous_item_ids.update(current_ids)" *)
MergeItemIds(prev_ids, results) == prev_ids \cup Ids(results)

(* The same without the cut *)
TrimmedItemIds_Untrimmed(ids, limit) == {ids}

(* "set(list(self._previous_item_ids)[-1000:])": a set has no order of its
   own, so the ids that stay are any limit of them (limit is the 1000 of
   the code, or the bound that stands for it) *)
TrimmedItemIds(ids, limit) ==
    IF Cardinality(ids) > limit
    THEN {kept \in SUBSET ids : Cardinality(kept) = limit}
    ELSE {ids}

(* list(a set): its elements in some order *)
RECURSIVE ListOf(_)
ListOf(S) ==
    IF S = {} THEN <<>>
    ELSE LET x == CHOOSE y \in S : TRUE
         IN <<x>> \o ListOf(S \ {x})

(* set(a list) *)
SetOf(list) == {list[i] : i \in DOMAIN list}

(* The "load previous state on first run" block of the search poller *)
LoadPreviousItemIds(load_ok) ==
    IF state_loaded THEN previous_item_ids
    ELSE IF load_ok /\ store # NoBlob
    THEN SetOf(store[1].previous_item_ids)
    ELSE previous_item_ids

-----------------------------------------------------------------------------
(* What the marketplace may answer *)

OkPage(items, total_pages) ==
    [status |-> "200", items |-> items, total_pages |-> total_pages]
FailPage(status) == [status |-> status, items |-> <<>>, total_pages |-> 0]

(* One page with any list, a failing first page, or a first page of one item
   followed by a second page that fails. *)
PageSeqs(RawItems) ==
    {<<OkPage(l, 1)>> : l \in SeqsUpTo(RawItems, MaxLen)}
    \cup {<<FailPage("500")>>, <<FailPage("exc")>>}
    \cup {<<OkPage(<<x>>, 2), FailPage("500")>> : x \in RawItems}

EmptyList == <<OkPage(<<>>, 0)>>
EmptyRemote == [bids |-> EmptyList, watchlist |-> EmptyList, purchases |-> EmptyList]

(* The BidList entries of the listings ids, with one of the names as high
   bidder and one of ends[id] as EndTime (NoTime: the entry carries none) *)
RawBidsOf(ids, names, ends) ==
    {[item_id |-> id, high_bidder |-> h, end_time |-> e, well_formed |-> TRUE] :
        id \in ids, h \in names, e \in UNION {ends[i] : i \in ids}}
    \cap {r \in [item_id : ids, high_bidder : names,
                  end_time : UNION {ends[i] : i \in ids}, well_formed : {TRUE}] :
             r.end_time \in ends[r.item_id]}

RawBids ==
    RawBidsOf(ItemIds, Names \ {<<>>},
              [id \in ItemIds |-> IF id = "a" THEN {ListingEndTime[id]} ELSE {NoTime}])

BidsRemotes ==
    {[EmptyRemote EXCEPT !.bids = p] : p \in PageSeqs(RawBids)}

(* The WonList entries: nothing about shipping, ShippingStatus "Shipped",
   ShippedTime alone, an Order with a tracking number, an Order with
   OrderStatus "Completed" *)
RawPurchase(id, has_order, status, tracking, shipped_time) ==
    [item_id |-> id, has_order |-> has_order, status |-> status,
     tracking |-> tracking, shipped_time |-> shipped_time, well_formed |-> TRUE]

RawPurchases ==
    UNION {{RawPurchase(id, FALSE, "", FALSE, FALSE),
            RawPurchase(id, FALSE, "Shipped", FALSE, FALSE),
            RawPurchase(id, FALSE, "", FALSE, TRUE),
            RawPurchase(id, TRUE, "", TRUE, FALSE),
            RawPurchase(id, TRUE, "Completed", FALSE, FALSE)} : id \in ItemIds}

PurchasesRemotes ==
    {[EmptyRemote EXCEPT !.purchases = p] : p \in PageSeqs(RawPurchases)}

(* The token endpoint's answers *)
TokenResponses ==
    {[status |-> "200", access_token |-> "tok", expires_in |-> 7200],
     [status |-> "200", access_token |-> NoToken, expires_in |-> 7200],
     [status |-> "401", access_token |-> NoToken, expires_in |-> 0],
     [status |-> "exc", access_token |-> NoToken, expires_in |-> 0]}

(* The Browse API's answers: any list of summaries, one of which may be
   malformed, or a failure *)
Summaries ==
    {[itemId |-> id, well_formed |-> TRUE, itemEndDate |-> NoTime] :
        id \in SearchIds}
    \cup {[itemId |-> "a", well_formed |-> FALSE, itemEndDate |-> NoTime]}

SearchResponse(status, json_ok, errors, summaries) ==
    [status |-> status, json_ok |-> json_ok, errors |-> errors,
     itemSummaries |-> summaries]

SearchResponses ==
    {SearchResponse("200", TRUE, FALSE, l) : l \in SeqsUpTo(Summaries, MaxLen)}
    \cup {SearchResponse("500", FALSE, FALSE, <<>>),
          SearchResponse("exc", FALSE, FALSE, <<>>),
          SearchResponse("200", FALSE, FALSE, <<>>),
          SearchResponse("200", TRUE, TRUE, <<>>),
          SearchResponse("200", TRUE, TRUE,
                         <<[itemId |-> "a", well_formed |-> TRUE,
                            itemEndDate |-> NoTime]>>)}

UserResolved == [status |-> "200", ack |-> "Success", user_id |-> AccountUserId]

UserResponses ==
    {UserResolved,
     [status |-> "200", ack |-> "Failure", user_id |-> NoUser],
     [status |-> "500", ack |-> "", user_id |-> NoUser]}

ItemResponse(status, has_item, listing_status, high_bidder) ==
    [status |-> status, has_item |-> has_item,
     ListingStatus |-> listing_status, HighBidder |-> high_bidder]

ItemFailures ==
    {ItemResponse(st, FALSE, "", <<>>) : st \in {"200", "500", "exc"}}

ItemResponses ==
    ItemFailures
    \cup {ItemResponse("200", TRUE, "Active", <<"a", "L">>)}
    \cup {ItemResponse("200", TRUE, "Ended", h) : h \in Names}
    \cup {ItemResponse("200", TRUE, "Completed", h) : h \in Names \ {<<>>}}

-----------------------------------------------------------------------------
(* The state machine *)

NoSoon == [id \in ItemIds |-> NoTime]

(* What the registry, the coordinators and the stores of the searches are *)
Snapshot ==
    [searches |-> searches, search_coordinators |-> search_coordinators,
     search_store |-> search_store, search_state |-> search_state]

NoSnapshot ==
    [searches |-> {}, search_coordinators |-> EmptyMap,
     search_store |-> EmptyMap, search_state |-> EmptyMap]

NoServiceData ==
    [keys |-> {}, search_query |-> "", site |-> "", listing_type |-> "",
     update_interval |-> 0]

NoServiceCall ==
    [op |-> "none", search_id |-> "", data |-> NoServiceData, pc |-> "",
     loaded |-> EmptyMap, before |-> NoSnapshot]

NothingPending == [restore |-> {}, sensors |-> {}]

NoLists == [bids |-> <<>>, watchlist |-> <<>>, purchases |-> <<>>]

(* A task that runs no call of the client *)
NoClientCall ==
    [op |-> "none", pc |-> "", list_type |-> "", page_number |-> 0,
     all_items |-> <<>>, lists |-> NoLists, answers |-> NoLists,
     requests |-> 0, result |-> <<>>, from_cache |-> FALSE, began |-> NoTime,
     at |-> NoTime, token |-> NoToken, paged |-> <<>>]

NoClientLog == [begun |-> 0, passes |-> {}, grants |-> {}]

(* A poller object just built: it has not touched its Store *)
NoStoreLog == [loads |-> 0, ops |-> <<>>]

NoTokenLog == [failed |-> FALSE, cyc_after_failure |-> FALSE,
               cyc_requested |-> FALSE]

InitOf(klasses) ==
    /\ klass \in klasses
    /\ now = 0
    /\ ebay_username = NoUser
    /\ my_ebay_cache = NoCache
    /\ my_ebay_cache_time = NoTime
    /\ oauth_token = NoToken
    /\ oauth_token_expires = NoTime
    /\ oauth_failed = FALSE
    /\ previous_data = EmptyMap
    /\ previous_item_ids = {}
    /\ state_loaded = FALSE
    /\ ending_soon = NoSoon
    /\ store = NoBlob
    /\ events = EmptyBag
    /\ cyc_prior = EmptyMap
    /\ cyc_prior_ids = {}
    /\ cyc_saved = FALSE
    /\ soon_log = NoSoon
    /\ cyc_soon_log = NoSoon
    /\ cyc_fetched = <<>>
    /\ cyc_fetch_failed = FALSE
    /\ cyc_lookups = EmptyMap
    /\ cyc_prev_fetched = <<>>
    /\ seen_log = {}
    /\ first_eval = <<>>
    /\ uninterrupted = <<>>
    /\ running = <<>>
    /\ cyc_batch = <<>>
    /\ token_log = NoTokenLog
    /\ cyc_identity = NoIdentityLog
    /\ coordinator_data = <<>>
    /\ watchlist_data = <<>>
    /\ api_calls = FreshCalls(0)
    /\ cyc_call = NoCall
    /\ cyc_continued = <<>>
    /\ searches = {}
    /\ search_coordinators = EmptyMap
    /\ search_store = EmptyMap
    /\ search_state = EmptyMap
    /\ service_calls = [c \in Callers |-> NoServiceCall]
    /\ setup_pending = NothingPending
    /\ cyc_service = NoServiceCall
    /\ deleted = EmptyMap
    /\ rate_info = NoRateInfo
    /\ client_calls = [c \in Callers |-> NoClientCall]
    /\ client_log = NoClientLog
    /\ store_log = NoStoreLog
    /\ forgotten = {}

(* What the last cycle's diff was given and what it fired *)
CycleRecord ==
    [prior |-> cyc_prior, prior_ids |-> cyc_prior_ids, fetched |-> cyc_fetched,
     lookups |-> cyc_lookups, username |-> ebay_username, events |-> events,
     at |-> now]

(* The cycle just run is remembered as the first evaluation of its pair of
   snapshots when mark is set; one cycle per behaviour is remembered. *)
MarkFirstEval(mark) ==
    first_eval' = IF mark THEN <<CycleRecord'>> ELSE first_eval

MarkChoices(in) == IF first_eval = <<>> THEN in.mark ELSE {FALSE}

(* How far the host's wall clock, which datetime.now() reads, is ahead of
   UTC, in which the model's clock runs: a host on UTC unless the inputs
   name other hosts *)
UtcOffsets(in) == IF "utc_offset" \in DOMAIN in THEN in.utc_offset ELSE {0}

(* An execution of _async_update_data returns: the one that began first, if
   any has begun, else one that ran without being suspended in between *)
Finished(executions) == IF executions = <<>> THEN <<>> ELSE Tail(executions)

(* When auction_ending_soon last fired for each item, after a cycle at time
   t that fired the bag fired. *)
LogSoon(log, fired, t) ==
    [id \in ItemIds |->
        IF CopiesIn(Event("auction_ending_soon", id), fired) > 0 THEN t
        ELSE log[id]]

(* The awaits of one execution of _async_update_data in the order the code
   reaches them: the Store load when _state_loaded is not set, the call of
   the client, the Store save *)
CycleOps_RetrySave(loaded, load_ok, fetch, save_ok) ==
    (IF loaded THEN <<>> ELSE <<[op |-> "async_load", ok |-> load_ok]>>)
    \o <<[op |-> fetch, ok |-> TRUE], [op |-> "async_save", ok |-> save_ok]>>
    \o (IF save_ok THEN <<>> ELSE <<[op |-> "async_save", ok |-> TRUE]>>)

CycleOps(loaded, load_ok, fetch, save_ok) ==
    (IF loaded THEN <<>> ELSE <<[op |-> "async_load", ok |-> load_ok]>>)
    \o <<[op |-> fetch, ok |-> TRUE], [op |-> "async_save", ok |-> save_ok]>>

(* store_log after a cycle: an execution that was begun and suspended made
   its load attempt when it began *)
LoggedCycle(load_ok, fetch, save_ok) ==
    [loads |-> store_log.loads
               + (IF state_loaded \/ running # <<>> THEN 0 ELSE 1),
     ops |-> CycleOps(state_loaded, load_ok, fetch, save_ok)]

(* The ended_ids whose lookup reports a listing that is neither Completed
   nor Ended *)
StillActive(ended_ids, lookups) ==
    {id \in ended_ids : /\ lookups[id].kind = "item"
                        /\ lookups[id].listing_status \notin {"Completed", "Ended"}}

(* EbayBidsCoordinator._async_update_data, run in.elapsed seconds after the
   previous action; in holds the sets the inputs of the cycle are drawn
   from. *)
BidsUpdate(in) ==
    /\ klass = "bids"
    /\ \E d \in {e \in in.elapsed : now + e <= MaxNow},
          user_resp \in (IF IdentityRequested THEN in.users
                         ELSE {CHOOSE u \in in.users : TRUE}),
          load_ok \in (IF state_loaded THEN {TRUE} ELSE in.load),
          save_ok \in in.save,
          utc_offset \in (IF state_loaded THEN {0} ELSE UtcOffsets(in)) :
        \E remote \in (IF CacheIsFresh(now + d) THEN {EmptyRemote} ELSE in.remotes) :
        /\ now' = now + d
        /\ \E prior \in {LoadPreviousData(load_ok, now + d + utc_offset)},
              got \in {GetMyEbayBuying(remote, user_resp, now + d)} :
           LET t == now + d
               bids == got.result.bids
               ended_ids == DOMAIN prior \ Ids(bids)
           IN \E item_resp \in [ended_ids -> in.items] :
              \E lookups \in {[id \in ended_ids |-> GetItem(item_resp[id])]} :
              \E chk \in {CheckBidChanges(bids, prior, lookups, got.username,
                                          ending_soon, t)} :
                LET new_data == ReplacePreviousData(prior, bids)
                    old == uninterrupted[1]
                IN /\ ebay_username' = got.username
                   /\ cyc_identity' = [before |-> ebay_username,
                                       requested |-> IdentityRequested]
                   /\ coordinator_data' = SortByEndTime(bids)
                   /\ api_calls' =
                        TrackApiCall(TrackApiCall(api_calls, "trading",
                                                  got.requests),
                                     "shopping", Cardinality(ended_ids))
                   /\ cyc_call' = CallRecord("bids", got, t)
                   /\ my_ebay_cache' = got.cache
                   /\ my_ebay_cache_time' = got.cache_time
                   /\ previous_data' = new_data
                   /\ state_loaded' = TRUE
                   /\ ending_soon' = chk.soon
                   /\ store' = SaveState([previous_data |-> new_data], save_ok)
                   /\ events' = chk.events
                   /\ cyc_prior' = prior
                   /\ cyc_saved' = save_ok
                   /\ soon_log' = LogSoon(soon_log, chk.events, t)
                   /\ cyc_soon_log' = soon_log
                   /\ cyc_fetched' = bids
                   /\ cyc_fetch_failed' = (got.fetched /\ PagesFailFrom(remote.bids, 1))
                   /\ cyc_batch' = IF got.fetched THEN BatchFrom(remote.bids, 1)
                                   ELSE <<>>
                   /\ cyc_lookups' = lookups
                   /\ store_log' = LoggedCycle(load_ok, "get_my_ebay_buying",
                                               save_ok)
                   /\ forgotten' = (forgotten \cup StillActive(ended_ids, lookups))
                                   \ Ids(bids)
                   /\ cyc_prev_fetched' = IF state_loaded THEN <<cyc_fetched>>
                                          ELSE <<>>
                   /\ cyc_continued' =
                        IF uninterrupted # <<>> /\ prior = old.previous_data
                        THEN <<CheckBidChanges(
                                   bids, prior, lookups,
                                   IF old.username # NoUser THEN old.username
                                   ELSE got.username,
                                   old.ending_soon, t).events>>
                        ELSE <<>>
    /\ uninterrupted' = <<>>
    /\ running' = Finished(running)
    /\ UNCHANGED <<registryVars, raceVars, rate_info, klass, browseVars, previous_item_ids, cyc_prior_ids, seen_log,
                   token_log, watchlist_data>>
    /\ \E mark \in MarkChoices(in) : MarkFirstEval(mark)

(* EbayPurchasesCoordinator._async_update_data *)
PurchasesUpdate(in) ==
    /\ klass = "purchases"
    /\ \E d \in {e \in in.elapsed : now + e <= MaxNow},
          user_resp \in (IF IdentityRequested THEN in.users
                         ELSE {CHOOSE u \in in.users : TRUE}),
          load_ok \in (IF state_loaded THEN {TRUE} ELSE in.load),
          save_ok \in in.save,
          utc_offset \in (IF state_loaded THEN {0} ELSE UtcOffsets(in)) :
        \E remote \in (IF CacheIsFresh(now + d) THEN {EmptyRemote} ELSE in.remotes) :
        /\ now' = now + d
        /\ \E prior \in {LoadPreviousData(load_ok, now + d + utc_offset)},
              got \in {GetMyEbayBuying(remote, user_resp, now + d)} :
           LET t == now + d
               purchases == got.result.purchases
               new_data == ReplacePreviousData(prior, purchases)
           IN /\ ebay_username' = got.username
              /\ cyc_identity' = [before |-> ebay_username,
                                  requested |-> IdentityRequested]
              /\ coordinator_data' = SortByPurchaseDate(purchases)
              /\ api_calls' = TrackApiCall(api_calls, "trading", got.requests)
              /\ cyc_call' = CallRecord("purchases", got, t)
              /\ my_ebay_cache' = got.cache
              /\ my_ebay_cache_time' = got.cache_time
              /\ previous_data' = new_data
              /\ state_loaded' = TRUE
              /\ store' = SaveState([previous_data |-> new_data], save_ok)
              /\ events' = CheckShippingChanges(purchases, 1, prior, EmptyBag)
              /\ cyc_prior' = prior
              /\ cyc_saved' = save_ok
              /\ cyc_fetched' = purchases
              /\ store_log' = LoggedCycle(load_ok, "get_my_ebay_buying", save_ok)
              /\ cyc_fetch_failed' = (got.fetched /\ PagesFailFrom(remote.purchases, 1))
              /\ cyc_batch' = IF got.fetched THEN BatchFrom(remote.purchases, 1)
                              ELSE <<>>
              /\ cyc_prev_fetched' = IF state_loaded THEN <<cyc_fetched>> ELSE <<>>
              /\ cyc_continued' =
                   IF uninterrupted # <<>> /\ prior = uninterrupted[1].previous_data
                   THEN <<CheckShippingChanges(purchases, 1,
                                               uninterrupted[1].previous_data,
                                               EmptyBag)>>
                   ELSE <<>>
    /\ uninterrupted' = <<>>
    /\ running' = Finished(running)
    /\ UNCHANGED <<registryVars, raceVars, forgotten, rate_info, klass, browseVars, bidsVars, previous_item_ids, cyc_prior_ids,
                   seen_log, token_log, watchlist_data>>
    /\ \E mark \in MarkChoices(in) : MarkFirstEval(mark)

(* EbayWatchlistCoordinator._async_update_data: the watchlist poller of the
   entry, which shares the client with the other pollers and keeps nothing
   but the list it returns *)
WatchlistUpdate_Diffing(in) ==
    /\ \E d \in {e \in in.elapsed : now + e <= MaxNow},
          user_resp \in (IF IdentityRequested THEN in.users
                         ELSE {CHOOSE u \in in.users : TRUE}) :
        \E remote \in (IF CacheIsFresh(now + d) THEN {EmptyRemote} ELSE in.remotes) :
        \E got \in {GetMyEbayBuying(remote, user_resp, now + d)} :
        /\ now' = now + d
        /\ ebay_username' = got.username
        /\ cyc_identity' = [before |-> ebay_username,
                            requested |-> IdentityRequested]
        /\ my_ebay_cache' = got.cache
        /\ my_ebay_cache_time' = got.cache_time
        /\ watchlist_data' = SortByEndTime(got.result.watchlist)
        /\ api_calls' = TrackApiCall(api_calls, "trading", got.requests)
        /\ cyc_call' = CallRecord("watchlist", got, now + d)
        /\ events' = CheckNewItems(got.result.watchlist, 1, {}, 0, EmptyBag)
    /\ UNCHANGED <<registryVars, raceVars, store_log, forgotten, rate_info, klass, browseVars, bidsVars, previous_data, previous_item_ids,
                   state_loaded, store, cyc_prior, cyc_prior_ids,
                   cyc_saved, cyc_fetched, cyc_fetch_failed, cyc_prev_fetched,
                   seen_log, first_eval, uninterrupted, cyc_batch, token_log,
                   running, cyc_continued, coordinator_data>>

(* EbayWatchlistCoordinator._async_update_data: the watchlist poller of the
   entry, which shares the client with the other pollers and keeps nothing
   but the list it returns *)
WatchlistUpdate(in) ==
    /\ \E d \in {e \in in.elapsed : now + e <= MaxNow},
          user_resp \in (IF IdentityRequested THEN in.users
                         ELSE {CHOOSE u \in in.users : TRUE}) :
        \E remote \in (IF CacheIsFresh(now + d) THEN {EmptyRemote} ELSE in.remotes) :
        \E got \in {GetMyEbayBuying(remote, user_resp, now + d)} :
        /\ now' = now + d
        /\ ebay_username' = got.username
        /\ cyc_identity' = [before |-> ebay_username,
                            requested |-> IdentityRequested]
        /\ my_ebay_cache' = got.cache
        /\ my_ebay_cache_time' = got.cache_time
        /\ watchlist_data' = SortByEndTime(got.result.watchlist)
        /\ api_calls' = TrackApiCall(api_calls, "trading", got.requests)
        /\ cyc_call' = CallRecord("watchlist", got, now + d)
    /\ UNCHANGED <<registryVars, raceVars, store_log, forgotten, rate_info, klass, browseVars, bidsVars, previous_data, previous_item_ids,
                   state_loaded, store, events, cyc_prior, cyc_prior_ids,
                   cyc_saved, cyc_fetched, cyc_fetch_failed, cyc_prev_fetched,
                   seen_log, first_eval, uninterrupted, cyc_batch, token_log,
                   running, cyc_continued, coordinator_data>>

(* EbaySearchCoordinator._async_update_data *)
SearchUpdate(in) ==
    /\ klass = "search"
    /\ \E d \in {e \in in.elapsed : now + e <= MaxNow} :
       \E token_resp \in (IF TokenRequested(now + d) THEN in.tokens
                          ELSE {CHOOSE r \in in.tokens : TRUE}),
          search_resp \in in.searches,
          load_ok \in (IF state_loaded THEN {TRUE} ELSE in.load),
          save_ok \in in.save :
        /\ now' = now + d
        /\ \E prior_ids \in {LoadPreviousItemIds(load_ok)},
              auth \in {GetOAuthToken(token_resp, now + d)} :
           \E results \in {SearchItems(auth.token, search_resp)} :
           LET t == now + d
           IN \E kept \in TrimmedItemIds(MergeItemIds(prior_ids, results),
                                         in.history) :
                /\ oauth_token' = auth.oauth_token
                /\ oauth_token_expires' = auth.expires
                /\ oauth_failed' = auth.failed
                /\ previous_item_ids' = kept
                /\ state_loaded' = TRUE
                /\ store' = SaveState([previous_item_ids |-> ListOf(kept)], save_ok)
                /\ events' = CheckNewItems(results, 1, prior_ids, 0, EmptyBag)
                /\ cyc_prior_ids' = prior_ids
                /\ cyc_saved' = save_ok
                /\ cyc_fetched' = results
                /\ store_log' = LoggedCycle(load_ok, "search_items", save_ok)
                /\ coordinator_data' = SortByEndTime(results)
                /\ api_calls' = TrackApiCall(api_calls, "browse",
                                             IF auth.token = NoToken THEN 0
                                             ELSE 1)
                /\ cyc_fetch_failed' = \/ auth.token = NoToken
                                        \/ search_resp.status # "200"
                                        \/ ~search_resp.json_ok
                                        \/ search_resp.errors
                /\ cyc_prev_fetched' = IF state_loaded THEN <<cyc_fetched>> ELSE <<>>
                /\ seen_log' = seen_log \cup prior_ids \cup Ids(results)
                /\ cyc_batch' = SearchBatch(auth.token, search_resp)
                /\ token_log' =
                     [failed |-> \/ token_log.failed
                                 \/ TokenRequested(t) /\ token_resp.status # "200",
                      cyc_after_failure |-> token_log.failed,
                      cyc_requested |-> TokenRequested(t)]
                /\ cyc_continued' =
                     IF /\ uninterrupted # <<>>
                        /\ prior_ids = uninterrupted[1].previous_item_ids
                     THEN <<CheckNewItems(results, 1,
                                          uninterrupted[1].previous_item_ids,
                                          0, EmptyBag)>>
                     ELSE <<>>
    /\ uninterrupted' = <<>>
    /\ running' = Finished(running)
    /\ UNCHANGED <<registryVars, raceVars, forgotten, rate_info, klass, tradingVars, bidsVars, previous_data, cyc_prior,
                   cyc_identity, watchlist_data, cyc_call>>
    /\ \E mark \in MarkChoices(in) : MarkFirstEval(mark)

(* Home Assistant restarts: async_setup_entry builds a new client and new
   coordinators; only what the Store holds survives. *)
Rebuild ==
    /\ state_loaded \/ search_store # EmptyMap
    /\ setup_pending = NothingPending
    /\ \A c \in Callers : service_calls[c] = NoServiceCall
    /\ searches' = {}
    /\ search_coordinators' = EmptyMap
    /\ setup_pending' = [restore |-> DOMAIN search_store, sensors |-> {}]
    /\ rate_info' = NoRateInfo
    /\ client_calls' = [c \in Callers |-> NoClientCall]
    /\ client_log' = NoClientLog
    /\ store_log' = NoStoreLog
    /\ UNCHANGED <<search_store, search_state, service_calls, cyc_service,
                   deleted, forgotten>>
    /\ ebay_username' = NoUser
    /\ my_ebay_cache' = NoCache
    /\ my_ebay_cache_time' = NoTime
    /\ oauth_token' = NoToken
    /\ oauth_token_expires' = NoTime
    /\ oauth_failed' = FALSE
    /\ previous_data' = EmptyMap
    /\ previous_item_ids' = {}
    /\ state_loaded' = FALSE
    /\ ending_soon' = NoSoon
    /\ events' = EmptyBag
    /\ cyc_prior' = EmptyMap
    /\ cyc_prior_ids' = {}
    /\ cyc_saved' = FALSE
    /\ soon_log' = NoSoon
    /\ cyc_soon_log' = NoSoon
    /\ cyc_fetched' = <<>>
    /\ cyc_fetch_failed' = FALSE
    /\ cyc_lookups' = EmptyMap
    /\ cyc_prev_fetched' = <<>>
    /\ seen_log' = {}
    /\ cyc_continued' = <<>>
    /\ running' = <<>>
    /\ cyc_batch' = <<>>
    /\ token_log' = NoTokenLog
    /\ cyc_identity' = NoIdentityLog
    /\ coordinator_data' = <<>>
    /\ watchlist_data' = <<>>
    /\ api_calls' = FreshCalls(now)
    /\ cyc_call' = NoCall
    /\ UNCHANGED <<klass, now, store, first_eval>>

Restart == Rebuild /\ uninterrupted' = <<>>

(* A restart after which the replaced poller object is remembered, so that
   the new object's first cycle can be compared with the cycle the old one
   would have run *)
RestartTracked ==
    /\ Rebuild
    /\ uninterrupted' = <<[previous_data |-> previous_data,
                           previous_item_ids |-> previous_item_ids,
                           username |-> ebay_username,
                           ending_soon |-> ending_soon]>>

(* One poller of any of the three classes, polled every 495 s, with
   restarts in between *)
BidsInputs ==
    [elapsed |-> {495}, users |-> UserResponses, remotes |-> BidsRemotes,
     load |-> {TRUE, FALSE}, save |-> {TRUE, FALSE}, items |-> ItemResponses,
     mark |-> {FALSE}]

PurchasesInputs ==
    [elapsed |-> {495}, users |-> {UserResolved}, remotes |-> PurchasesRemotes,
     load |-> {TRUE, FALSE}, save |-> {TRUE, FALSE}, mark |-> {FALSE}]

SearchInputs ==
    [elapsed |-> {495}, tokens |-> TokenResponses, searches |-> SearchResponses,
     load |-> {TRUE, FALSE}, save |-> {TRUE, FALSE}, history |-> MaxHistory,
     mark |-> {FALSE}]

Next ==
    \/ BidsUpdate(BidsInputs)
    \/ PurchasesUpdate(PurchasesInputs)
    \/ SearchUpdate(SearchInputs)
    \/ Restart

Spec == InitOf({"bids", "purchases", "search"}) /\ [][Next]_vars

(* A bids poller polled every 300 or 330 s while listing "a" approaches its
   end and listing "b" passes it *)
SoonRawBids ==
    RawBidsOf({"a"}, Names \ {<<>>}, [id \in ItemIds |-> {ListingEndTime[id]}])
    \cup RawBidsOf({"b"}, {<<"a", "L">>},
                   [id \in ItemIds |-> {ListingEndTime[id], NoTime}])

SoonInputs ==
    [elapsed |-> {300, 330}, users |-> {UserResolved},
     remotes |-> {[EmptyRemote EXCEPT !.bids = <<OkPage(l, 1)>>] :
                     l \in SeqsUpTo(SoonRawBids, MaxLen)},
     load |-> {TRUE}, save |-> {TRUE},
     items |-> {ItemResponse("500", FALSE, "", <<>>)}, mark |-> {FALSE}]

NextSoon == BidsUpdate(SoonInputs)

SpecSoon == InitOf({"bids"}) /\ [][NextSoon]_vars

(* A search poller polled every 330 s with a valid token, its results any
   list the Browse API can answer, with restarts in between *)
SeenInputs ==
    [elapsed |-> {330},
     tokens |-> {r \in TokenResponses : r.access_token # NoToken},
     searches |-> {r \in SearchResponses : r.status = "200" /\ r.json_ok},
     load |-> {TRUE, FALSE}, save |-> {TRUE}, history |-> MaxHistory,
     mark |-> {FALSE}]

NextSeen == SearchUpdate(SeenInputs) \/ Restart

SpecSeen == InitOf({"search"}) /\ [][NextSeen]_vars

(* The entries of seq at the indices of S, in the order of seq, from index i
   on *)
RECURSIVE SubList(_, _, _)
SubList(seq, S, i) ==
    IF i > Len(seq) THEN <<>>
    ELSE (IF i \in S THEN <<seq[i]>> ELSE <<>>) \o SubList(seq, S, i + 1)

Reversed(seq) == [i \in 1..Len(seq) |-> seq[Len(seq) + 1 - i]]

(* Result lists of up to MaxResults distinct well-formed summaries, in
   ascending or descending order of their ids *)
ResultPool ==
    SubSeq(<<"a", "b", "c", "d", "e", "f", "g", "h">>, 1, MaxResults)

DistinctResults ==
    LET pool == [i \in 1..MaxResults |->
                    [itemId |-> ResultPool[i], well_formed |-> TRUE,
                     itemEndDate |-> NoTime]]
    IN {SubList(pool, S, 1) : S \in SUBSET (1..MaxResults)}
       \cup {SubList(Reversed(pool), S, 1) : S \in SUBSET (1..MaxResults)}

(* A search poller with a valid token, polled twice from an empty seen-set;
   the history limit is the one of the code *)
FirstRunInputs ==
    [elapsed |-> {495},
     tokens |-> {r \in TokenResponses : r.access_token # NoToken},
     searches |-> {SearchResponse("200", TRUE, FALSE, l) : l \in DistinctResults},
     load |-> {TRUE}, save |-> {TRUE}, history |-> HISTORY_LIMIT,
     mark |-> {FALSE}]

NextFirstRun == SearchUpdate(FirstRunInputs)

SpecFirstRun == InitOf({"search"}) /\ [][NextFirstRun]_vars

(* One poller of any class whose Store may fail to load after a restart; the
   search poller's result lists are long enough for the first-run cap *)
EmptyPriorSearchInputs ==
    [FirstRunInputs EXCEPT
        !.searches = {SearchResponse("200", TRUE, FALSE, l) :
                         l \in {r \in DistinctResults :
                                   \A i \in DOMAIN r : r[i].itemId = ResultPool[i]}},
        !.load = {TRUE, FALSE}, !.save = {TRUE, FALSE}]

NextEmptyPrior ==
    \/ BidsUpdate(BidsInputs)
    \/ PurchasesUpdate(PurchasesInputs)
    \/ SearchUpdate(EmptyPriorSearchInputs)
    \/ Restart

SpecEmptyPrior ==
    InitOf({"bids", "purchases", "search"}) /\ [][NextEmptyPrior]_vars

(* The lists of at most one entry *)
UpToOne(S) == {<<>>} \cup {<<x>> : x \in S}

(* One poller of any class polled every 240 or 330 s over listing "a", with
   restarts in between; one cycle of each behaviour is remembered, so that
   a later cycle given the same snapshots can be compared with it *)
ReplayBidsInputs ==
    [elapsed |-> {240, 330}, users |-> UserResponses,
     remotes |-> {[EmptyRemote EXCEPT !.bids = <<OkPage(l, 1)>>] :
                     l \in UpToOne(RawBidsOf({"a"}, Names \ {<<>>},
                                              [id \in ItemIds |-> {ListingEndTime[id]}]))},
     load |-> {TRUE, FALSE}, save |-> {TRUE, FALSE},
     items |-> {ItemResponse("500", FALSE, "", <<>>),
                ItemResponse("200", TRUE, "Ended", <<"a", "L">>)},
     mark |-> {TRUE, FALSE}]

ReplayPurchasesInputs ==
    [elapsed |-> {330}, users |-> {UserResolved},
     remotes |-> {[EmptyRemote EXCEPT !.purchases = <<OkPage(l, 1)>>] :
                     l \in UpToOne({r \in RawPurchases : r.item_id = "a"})},
     load |-> {TRUE, FALSE}, save |-> {TRUE, FALSE}, mark |-> {TRUE, FALSE}]

ReplaySearchInputs ==
    [elapsed |-> {330},
     tokens |-> {r \in TokenResponses : r.access_token # NoToken},
     searches |-> {SearchResponse("200", TRUE, FALSE, l) :
                      l \in UpToOne({r \in Summaries : r.itemId \in {"a", "b"}})},
     load |-> {TRUE, FALSE}, save |-> {TRUE, FALSE}, history |-> MaxHistory,
     mark |-> {TRUE, FALSE}]

NextReplay ==
    \/ BidsUpdate(ReplayBidsInputs)
    \/ PurchasesUpdate(ReplayPurchasesInputs)
    \/ SearchUpdate(ReplaySearchInputs)
    \/ Restart

SpecReplay == InitOf({"bids", "purchases", "search"}) /\ [][NextReplay]_vars

(* The same pollers with restarts after which the first cycle of the new
   poller object is compared with the old object's *)
NextRestart ==
    \/ BidsUpdate([ReplayBidsInputs EXCEPT !.mark = {FALSE}])
    \/ PurchasesUpdate([ReplayPurchasesInputs EXCEPT !.mark = {FALSE}])
    \/ SearchUpdate([ReplaySearchInputs EXCEPT !.mark = {FALSE}])
    \/ RestartTracked

SpecRestart == InitOf({"bids", "purchases", "search"}) /\ [][NextRestart]_vars

(* A bids poller over listing "a", polled every 330 s with restarts in
   between; the lookup of a vanished item finds the listing active or ended *)
ForgetInputs ==
    [ReplayBidsInputs EXCEPT
        !.items = {ItemResponse("200", TRUE, "Active", <<"a", "L">>),
                   ItemResponse("200", TRUE, "Ended", <<"a", "L">>)},
        !.mark = {FALSE}]

NextForget ==
    \/ BidsUpdate(ForgetInputs)
    \/ Restart

SpecForget == InitOf({"bids"}) /\ [][NextForget]_vars

(* A bids or purchases poller restarted on a host on UTC or an hour ahead
   of it, whose saved entry ended about STATE_RETENTION_DAYS before the load *)
PruneCutoff == 495 + 495 - STATE_RETENTION_DAYS * 86400

PruneEnds ==
    {PruneCutoff - 1, PruneCutoff, PruneCutoff + 1800, PruneCutoff + 3601,
     NoTime, UnparsableTime}

PruneBidsInputs ==
    [elapsed |-> {495}, users |-> {UserResolved},
     remotes |-> {[EmptyRemote EXCEPT !.bids = <<OkPage(l, 1)>>] :
                     l \in UpToOne(RawBidsOf(ItemIds, {<<"Z", "o">>},
                                             [id \in ItemIds |-> PruneEnds]))},
     load |-> {TRUE, FALSE}, save |-> {TRUE, FALSE},
     items |-> {ItemResponse("200", TRUE, "Active", <<"a", "L">>),
                ItemResponse("200", TRUE, "Ended", <<"a", "L">>)},
     mark |-> {FALSE}, utc_offset |-> {0, 3600}]

PrunePurchasesInputs ==
    [elapsed |-> {495}, users |-> {UserResolved},
     remotes |-> {[EmptyRemote EXCEPT !.purchases = <<OkPage(l, 1)>>] :
                     l \in UpToOne(RawPurchases)},
     load |-> {TRUE, FALSE}, save |-> {TRUE, FALSE}, mark |-> {FALSE},
     utc_offset |-> {0, 3600}]

NextPrune ==
    \/ BidsUpdate(PruneBidsInputs)
    \/ PurchasesUpdate(PrunePurchasesInputs)
    \/ Restart

SpecPrune == InitOf({"bids", "purchases"}) /\ [][NextPrune]_vars

(* A caller awaits the coordinator's refresh: an execution of
   _async_update_data begins and is suspended at its first await (the Store
   load or the request to eBay).  Nothing in the integration keeps a caller
   from doing so while an execution is under way. *)
BeginRefresh(caller) ==
    /\ Len(running) < MaxRunning
    /\ running' = Append(running, caller)
    /\ store_log' = [store_log EXCEPT
                        !.loads = @ + (IF state_loaded THEN 0 ELSE 1)]
    /\ UNCHANGED <<registryVars, raceVars, forgotten, rate_info, klass, now, tradingVars, browseVars, bidsVars, previous_data,
                   previous_item_ids, state_loaded, store, events, cyc_prior,
                   cyc_prior_ids, cyc_saved, cyc_fetched, cyc_fetch_failed,
                   cyc_prev_fetched, seen_log, first_eval, uninterrupted,
                   cyc_batch, token_log, cyc_continued, cyc_identity,
                   coordinator_data, watchlist_data, api_calls, cyc_call>>

(* The interval the coordinator was built with has passed; the timer is
   armed once the first refresh has returned and entities listen *)
IntervalRefresh == state_loaded /\ BeginRefresh("interval")

(* The update_search service: "await coordinator.async_refresh()"; it finds
   the coordinator in the registry, where it is put after its first refresh *)
UpdateSearchRefresh ==
    klass = "search" /\ state_loaded /\ BeginRefresh("update_search")

(* create_chunks_for_coordinator of the sensor platform's setup:
   "await coordinator.async_refresh()"; the platforms are set up after the
   first refreshes *)
SensorSetupRefresh ==
    klass # "search" /\ state_loaded /\ BeginRefresh("sensor_setup")

(* async_setup_entry and _create_search_coordinator:
   "await coordinator.async_config_entry_first_refresh()" *)
FirstRefresh ==
    /\ ~state_loaded
    /\ "first_refresh" \notin SetOf(running)
    /\ BeginRefresh("first_refresh")

(* refresh_bids, refresh_purchases, refresh_search, refresh_account and
   refresh_all: "await coordinator.async_request_refresh()".  The bids and
   purchases coordinators are in hass.data before their first refresh, a
   search coordinator after it; a request made while a requested refresh is
   under way is dropped. *)
ServiceRefresh ==
    /\ klass = "search" => state_loaded
    /\ "refresh_service" \notin SetOf(running)
    /\ BeginRefresh("refresh_service")

(* One poller whose refresh is awaited by the setup of its entry, by its
   interval timer, by the refresh services, by the update_search service and
   by the sensor platform's setup *)
NextOverlap ==
    \/ BidsUpdate([ReplayBidsInputs EXCEPT !.mark = {FALSE}])
    \/ PurchasesUpdate([ReplayPurchasesInputs EXCEPT !.mark = {FALSE}])
    \/ SearchUpdate([ReplaySearchInputs EXCEPT !.mark = {FALSE}])
    \/ FirstRefresh
    \/ IntervalRefresh
    \/ ServiceRefresh
    \/ UpdateSearchRefresh
    \/ SensorSetupRefresh

SpecOverlap == InitOf({"bids", "purchases", "search"}) /\ [][NextOverlap]_vars

(* One poller of any class whose pages and results may hold a record that
   cannot be parsed: a bid and a purchase with a price that is no number, an
   item summary _parse_browse_item raises on *)
Malformed(RawItems) == {[r EXCEPT !.well_formed = FALSE] : r \in RawItems}

ParseRawBids ==
    LET good == RawBidsOf(ItemIds, {<<"Z", "o">>}, [id \in ItemIds |-> {NoTime}])
    IN good \cup Malformed({r \in good : r.item_id = "b"})

ParseRawPurchases ==
    LET good == {RawPurchase(id, FALSE, "", FALSE, FALSE) : id \in ItemIds}
    IN good \cup Malformed({r \in good : r.item_id = "b"})

ParseInputs ==
    [elapsed |-> {495}, users |-> {UserResolved},
     remotes |-> {[EmptyRemote EXCEPT !.bids = p] : p \in PageSeqs(ParseRawBids)}
                 \cup {[EmptyRemote EXCEPT !.purchases = p] :
                          p \in PageSeqs(ParseRawPurchases)},
     items |-> {ItemResponse("500", FALSE, "", <<>>)},
     tokens |-> {r \in TokenResponses : r.access_token # NoToken},
     searches |-> {SearchResponse("200", TRUE, FALSE, l) :
                      l \in SeqsUpTo({r \in Summaries : r.itemId \in {"a", "b"}},
                                      MaxLen)},
     load |-> {TRUE}, save |-> {TRUE}, history |-> MaxHistory, mark |-> {FALSE}]

NextParse ==
    \/ BidsUpdate(ParseInputs)
    \/ PurchasesUpdate(ParseInputs)
    \/ SearchUpdate(ParseInputs)

SpecParse == InitOf({"bids", "purchases", "search"}) /\ [][NextParse]_vars

(* The pollers of one entry calling get_my_ebay_buying of the client they
   share 10, 19 or 30 s after the previous call: the bids or the purchases
   poller and the watchlist poller, as in the refreshes of async_setup_entry
   and in later refreshes, with restarts in between *)
RawWatch ==
    RawBidsOf(ItemIds, {<<>>},
              [id \in ItemIds |-> {ListingEndTime[id], NoTime}])

CacheRemotes ==
    {[bids |-> <<OkPage(b, 1)>>, watchlist |-> <<OkPage(w, 1)>>,
      purchases |-> <<OkPage(p, 1)>>] :
        b \in UpToOne(RawBidsOf({"a"}, {<<"Z", "o">>},
                                [id \in ItemIds |-> {ListingEndTime[id]}])),
        w \in UpToOne({r \in RawWatch : r.end_time # NoTime}),
        p \in UpToOne({RawPurchase("a", FALSE, "", FALSE, FALSE)})}
    \cup {[EmptyRemote EXCEPT !.bids = <<FailPage("500")>>]}

CacheInputs ==
    [elapsed |-> {e \in {10, 19, 30} : now + e <= MaxCacheNow},
     users |-> {UserResolved}, remotes |-> CacheRemotes,
     load |-> {TRUE}, save |-> {TRUE},
     items |-> {ItemResponse("500", FALSE, "", <<>>)}, mark |-> {FALSE}]

NextCache ==
    \/ BidsUpdate(CacheInputs)
    \/ PurchasesUpdate(CacheInputs)
    \/ WatchlistUpdate(CacheInputs)
    \/ Restart

SpecCache == InitOf({"bids", "purchases"}) /\ [][NextCache]_vars

-----------------------------------------------------------------------------
(* One cycle of a bids, a watchlist or a search poller over lists whose
   entries end at 600 s or at 1230 s, have no end time or have one that is
   no ISO date; two entries of a list may be equal in all of that *)
SortEnds ==
    {ListingEndTime[id] : id \in ItemIds} \cup {NoTime, UnparsableTime}

SortLists == SeqsUpTo(RawBidsOf(ItemIds, {<<>>}, [id \in ItemIds |-> SortEnds]),
                      MaxLen)

SortInputs(list_name) ==
    [elapsed |-> {990}, users |-> {UserResolved},
     remotes |-> {[EmptyRemote EXCEPT ![list_name] = <<OkPage(l, 1)>>] :
                     l \in SortLists},
     load |-> {TRUE}, save |-> {TRUE},
     items |-> {ItemResponse("500", FALSE, "", <<>>)}, mark |-> {FALSE},
     tokens |-> {r \in TokenResponses : r.access_token # NoToken},
     searches |-> {SearchResponse("200", TRUE, FALSE, l) :
                      l \in SeqsUpTo({[itemId |-> id, well_formed |-> TRUE,
                                       itemEndDate |-> e] :
                                         id \in ItemIds, e \in SortEnds},
                                     MaxLen)},
     history |-> MaxHistory]

NextSort ==
    \/ BidsUpdate(SortInputs("bids"))
    \/ WatchlistUpdate(SortInputs("watchlist"))
    \/ SearchUpdate(SortInputs("bids"))

SpecSort == InitOf({"bids", "search"}) /\ [][NextSort]_vars

-----------------------------------------------------------------------------
(* The local call tracking of the client while the bids and the search
   poller use it: get_rate_limits and reset_rate_limit_tracking are called
   at any time between the cycles *)

(* EbayAPI.get_rate_limits *)
GetRateLimits ==
    /\ rate_info' = [op |-> "get_rate_limits", at |-> now,
                     returned |-> RateLimits(api_calls, now)]
    /\ UNCHANGED <<registryVars, pollerVars, now, browseVars, api_calls,
                   events>>

(* EbayAPI.reset_rate_limit_tracking *)
ResetRateLimitTracking ==
    /\ api_calls' = FreshCalls(now)
    /\ rate_info' = [op |-> "reset_rate_limit_tracking", at |-> now,
                     returned |-> rate_info.returned]
    /\ UNCHANGED <<registryVars, pollerVars, now, browseVars, events>>

NextRates ==
    \/ BidsUpdate([ReplayBidsInputs EXCEPT !.mark = {FALSE}])
    \/ SearchUpdate([ReplaySearchInputs EXCEPT !.mark = {FALSE}])
    \/ GetRateLimits
    \/ ResetRateLimitTracking

SpecRates == InitOf({"bids", "search"}) /\ [][NextRates]_vars

-----------------------------------------------------------------------------
(* The searches of one entry: the services create_search, update_search and
   delete_search, the restoring of the saved searches after a restart, and
   the cycles of the search coordinators *)

(* EbaySearchCoordinator.__init__ for the config dict search_config, at
   time t *)
NewSearchCoordinator(search_config, t) ==
    [instance |-> t, search_config |-> search_config,
     update_interval |-> search_config.update_interval,
     previous_item_ids |-> {}, state_loaded |-> FALSE, data |-> <<>>,
     cycles |-> 0, cyc_config |-> search_config, cyc_prior_ids |-> {},
     entities |-> {}]

(* One execution of _async_update_data of the coordinator object pl of the
   search search_id, as async_refresh, async_config_entry_first_refresh or
   the interval timer runs it; with_chunks when create_chunks_for_coordinator
   runs it and then adds a chunk sensor for every 20 items it returned *)
SearchRefresh(search_id, pl, with_chunks, in) ==
    \E d \in {e \in in.elapsed : now + e <= MaxNow} :
    \E token_resp \in (IF TokenRequested(now + d) THEN in.tokens
                       ELSE {CHOOSE r \in in.tokens : TRUE}),
       search_resp \in in.searches :
    \E prior_ids \in {IF pl.state_loaded THEN pl.previous_item_ids
                      ELSE IF search_id \in DOMAIN search_state
                      THEN SetOf(search_state[search_id])
                      ELSE pl.previous_item_ids},
       auth \in {GetOAuthToken(token_resp, now + d)} :
    \E results \in {SearchItems(auth.token, search_resp)} :
    \E kept \in TrimmedItemIds(MergeItemIds(prior_ids, results), in.history) :
        /\ now' = now + d
        /\ oauth_token' = auth.oauth_token
        /\ oauth_token_expires' = auth.expires
        /\ oauth_failed' = auth.failed
        /\ api_calls' = TrackApiCall(api_calls, "browse",
                                     IF auth.token = NoToken THEN 0 ELSE 1)
        /\ events' = CheckNewItems(results, 1, prior_ids, 0, EmptyBag)
        /\ search_state' = (search_id :> ListOf(kept)) @@ search_state
        /\ search_coordinators' =
             (search_id :> [pl EXCEPT !.previous_item_ids = kept,
                                      !.state_loaded = TRUE,
                                      !.data = SortByEndTime(results),
                                      !.cycles = @ + 1,
                                      !.cyc_config = pl.search_config,
                                      !.cyc_prior_ids = prior_ids,
                                      !.entities =
                                          IF with_chunks /\ results # <<>>
                                          THEN @ \cup {"chunk"} ELSE @])
             @@ search_coordinators

Idle(c) == service_calls[c] = NoServiceCall /\ setup_pending = NothingPending

Suspended(c, op, search_id, data) ==
    [service_calls EXCEPT ![c] =
        [op |-> op, search_id |-> search_id, data |-> data, pc |-> "load",
         loaded |-> EmptyMap, before |-> Snapshot]]

(* The dict create_search builds from call.data *)
CreatedConfig(data) ==
    [search_query |-> data.search_query, site |-> data.site,
     listing_type |-> IF "listing_type" \in data.keys THEN data.listing_type
                      ELSE "both",
     update_interval |-> IF "update_interval" \in data.keys
                         THEN data.update_interval
                         ELSE DEFAULT_UPDATE_INTERVAL]

(* create_search up to "await data["store"].async_load()": the new id, the
   config, _create_search_coordinator with its refresh, the registry entry *)
CreateSearch(c, in) ==
    /\ Idle(c)
    /\ \E search_id \in SearchUuids \ (DOMAIN search_coordinators
                                       \cup DOMAIN search_store
                                       \cup DOMAIN search_state),
          data \in in.create :
        /\ SearchRefresh(search_id,
                         NewSearchCoordinator(CreatedConfig(data), now),
                         FALSE, in)
        /\ searches' = searches \cup {search_id}
        /\ service_calls' = Suspended(c, "create", search_id, data)
    /\ UNCHANGED <<pollerVars, rate_info, search_store, setup_pending, cyc_service,
                   deleted>>

(* The dict update_search leaves in search_config: the keys of call.data
   replace the stored values, the others stay *)
UpdatedConfig_Defaults(search_config, data) ==
    [search_query |-> IF "search_query" \in data.keys THEN data.search_query
                      ELSE search_config.search_query,
     site |-> IF "site" \in data.keys THEN data.site ELSE search_config.site,
     listing_type |-> IF "listing_type" \in data.keys THEN data.listing_type
                      ELSE "both",
     update_interval |-> IF "update_interval" \in data.keys
                         THEN data.update_interval
                         ELSE DEFAULT_UPDATE_INTERVAL]

UpdatedConfig(search_config, data) ==
    [search_query |-> IF "search_query" \in data.keys THEN data.search_query
                      ELSE search_config.search_query,
     site |-> IF "site" \in data.keys THEN data.site ELSE search_config.site,
     listing_type |-> IF "listing_type" \in data.keys THEN data.listing_type
                      ELSE search_config.listing_type,
     update_interval |-> IF /\ "update_interval" \in data.keys
                            /\ search_config.update_interval
                                 # data.update_interval
                         THEN data.update_interval
                         ELSE search_config.update_interval]

(* update_search up to "await data["store"].async_load()": the config and
   the interval are changed, then the coordinator is refreshed *)
UpdateSearch(c, in) ==
    /\ Idle(c)
    /\ \E search_id \in searches, data \in in.update :
       LET pl == search_coordinators[search_id]
       IN /\ SearchRefresh(
                search_id,
                [pl EXCEPT
                    !.search_config = UpdatedConfig(pl.search_config, data),
                    !.update_interval =
                        IF /\ "update_interval" \in data.keys
                           /\ pl.search_config.update_interval
                                # data.update_interval
                        THEN data.update_interval
                        ELSE pl.update_interval],
                FALSE, in)
          /\ service_calls' = Suspended(c, "update", search_id, data)
    /\ UNCHANGED <<pollerVars, rate_info, searches, search_store, setup_pending,
                   cyc_service, deleted>>

(* delete_search up to "await data["store"].async_load()": the entity with
   the unique_id of the search's main sensor is removed, then the registry
   entry *)
DeleteSearch(c) ==
    /\ Idle(c)
    /\ \E search_id \in searches :
        /\ search_coordinators' =
             [search_coordinators EXCEPT ![search_id].entities = @ \ {"main"}]
        /\ searches' = searches \ {search_id}
        /\ service_calls' = Suspended(c, "delete", search_id, NoServiceData)
    /\ UNCHANGED <<pollerVars, rate_info, now, browseVars, api_calls, events, search_store,
                   search_state, setup_pending, cyc_service, deleted>>

(* "searches = await data["store"].async_load() or {}" of the three
   handlers *)
ServiceLoad(c) ==
    /\ service_calls[c].pc = "load"
    /\ service_calls' = [service_calls EXCEPT ![c].loaded = search_store,
                                              ![c].pc = "save"]
    /\ UNCHANGED <<pollerVars, rate_info, now, browseVars, api_calls, events, searches,
                   search_coordinators, search_store, search_state,
                   setup_pending, cyc_service, deleted>>

(* The dict a handler saves: what it loaded, with its own search set to the
   config dict as it is now, or removed *)
SavedSearches(call) ==
    IF call.op = "delete"
    THEN [id \in DOMAIN call.loaded \ {call.search_id} |-> call.loaded[id]]
    ELSE (call.search_id
            :> search_coordinators[call.search_id].search_config)
         @@ call.loaded

(* The three handlers from "await data["store"].async_save(searches)" to
   their return; create_search adds the search's main sensor *)
ServiceSave(c) ==
    /\ service_calls[c].pc = "save"
    /\ LET call == service_calls[c]
       IN /\ search_store' = SavedSearches(call)
          /\ search_coordinators' =
               IF call.op = "create" /\ call.search_id \in searches
               THEN [search_coordinators EXCEPT
                        ![call.search_id].entities = @ \cup {"main"}]
               ELSE search_coordinators
          /\ cyc_service' = call
          /\ deleted' =
               IF call.op = "delete"
               THEN (call.search_id
                       :> search_coordinators[call.search_id].cycles)
                    @@ deleted
               ELSE deleted
    /\ service_calls' = [service_calls EXCEPT ![c] = NoServiceCall]
    /\ UNCHANGED <<pollerVars, rate_info, now, browseVars, api_calls, events, searches,
                   search_state, setup_pending>>

(* The interval timer of a search coordinator, which runs while an entity
   listens to the coordinator *)
SearchInterval(in) ==
    /\ setup_pending = NothingPending
    /\ \A c \in in.callers : service_calls[c] = NoServiceCall
    /\ \E search_id \in DOMAIN search_coordinators :
        /\ search_coordinators[search_id].entities # {}
        /\ SearchRefresh(search_id, search_coordinators[search_id], FALSE,
                         in)
    /\ UNCHANGED <<pollerVars, rate_info, searches, search_store, service_calls,
                   setup_pending, cyc_service, deleted>>

(* async_setup_entry restores one saved search: _create_search_coordinator
   with is_setup *)
RestoreSearch(in) ==
    /\ \E search_id \in setup_pending.restore :
        /\ SearchRefresh(search_id,
                         NewSearchCoordinator(search_store[search_id], now),
                         FALSE, in)
        /\ searches' = searches \cup {search_id}
        /\ setup_pending' =
             [restore |-> setup_pending.restore \ {search_id},
              sensors |-> setup_pending.sensors \cup {search_id}]
    /\ UNCHANGED <<pollerVars, rate_info, search_store, service_calls, cyc_service,
                   deleted>>

(* The sensor platform's async_setup_entry for one search: the main sensor,
   then create_chunks_for_coordinator, which refreshes the coordinator and
   adds chunk sensors when it has items *)
SetupSearchSensors(in) ==
    /\ setup_pending.restore = {}
    /\ \E search_id \in setup_pending.sensors :
        /\ SearchRefresh(
              search_id,
              [search_coordinators[search_id] EXCEPT
                  !.entities = @ \cup {"main"}],
              TRUE, in)
        /\ setup_pending' =
             [setup_pending EXCEPT !.sensors = @ \ {search_id}]
    /\ UNCHANGED <<pollerVars, rate_info, searches, search_store, service_calls,
                   cyc_service, deleted>>

(* One task calling the services one after the other, the interval timers
   and restarts: searches of at most one result, 200 s from one cycle to
   the next *)
ServiceData(keys, search_query, site, listing_type, update_interval) ==
    [keys |-> keys,
     search_query |-> IF "search_query" \in keys THEN search_query ELSE "",
     site |-> IF "site" \in keys THEN site ELSE "",
     listing_type |-> IF "listing_type" \in keys THEN listing_type ELSE "",
     update_interval |-> IF "update_interval" \in keys THEN update_interval
                         ELSE 0]

RegistryInputs(callers) ==
    [elapsed |-> {200},
     tokens |-> {r \in TokenResponses : r.access_token # NoToken},
     searches |-> {SearchResponse("200", TRUE, FALSE, l) :
                      l \in UpToOne({r \in Summaries :
                                        r.itemId = "a" /\ r.well_formed})},
     history |-> MaxHistory, callers |-> callers,
     create |-> {ServiceData({"search_query", "site"} \cup k, "lego",
                             "EBAY_GB", "auction", LongInterval) :
                    k \in {{}, {"listing_type", "update_interval"}}},
     update |-> {ServiceData(k, "nikon", "EBAY_US", "fixed", i) :
                    k \in {{}, {"search_query"}, {"update_interval"},
                           {"site", "listing_type", "update_interval"}},
                    i \in {DEFAULT_UPDATE_INTERVAL, LongInterval}}]

NextRegistry ==
    \/ CreateSearch("t1", RegistryInputs({"t1"}))
    \/ UpdateSearch("t1", RegistryInputs({"t1"}))
    \/ DeleteSearch("t1")
    \/ ServiceLoad("t1")
    \/ ServiceSave("t1")
    \/ SearchInterval(RegistryInputs({"t1"}))
    \/ Restart
    \/ RestoreSearch(RegistryInputs({"t1"}))
    \/ SetupSearchSensors(RegistryInputs({"t1"}))

SpecRegistry == InitOf({"search"}) /\ [][NextRegistry]_vars

(* Two tasks calling the services, each handler suspended at its awaits
   while the other runs: two cycles 400 s apart, each returning one item *)
ServicesInputs ==
    [elapsed |-> {400},
     tokens |-> {r \in TokenResponses : r.access_token # NoToken},
     searches |-> {SearchResponse("200", TRUE, FALSE, <<r>>) :
                      r \in {q \in Summaries :
                                q.itemId = "a" /\ q.well_formed}},
     history |-> MaxHistory, callers |-> Callers,
     create |-> {ServiceData({"search_query", "site"}, "lego", "EBAY_GB",
                             "", 0)},
     update |-> {ServiceData({"search_query"}, "nikon", "", "", 0),
                 ServiceData({"update_interval"}, "", "", "", LongInterval)}]

NextServices ==
    \E c \in Callers :
        \/ CreateSearch(c, ServicesInputs)
        \/ UpdateSearch(c, ServicesInputs)
        \/ DeleteSearch(c)
        \/ ServiceLoad(c)
        \/ ServiceSave(c)

SpecServices == InitOf({"search"}) /\ [][NextServices]_vars

-----------------------------------------------------------------------------
(* The client's calls as the tasks of the event loop run them: a call is
   suspended at each await (the GetUser request, each page request, the
   token request) and other tasks run meanwhile; what lies between two
   awaits is one step *)

cycleVars == <<registryVars, rate_info, store_log, forgotten, klass, bidsVars,
               previous_data, previous_item_ids, state_loaded, store, events,
               cyc_prior, cyc_prior_ids, cyc_saved, cyc_fetched,
               cyc_fetch_failed, cyc_prev_fetched, seen_log, first_eval,
               uninterrupted, cyc_batch, token_log, running, cyc_continued,
               cyc_identity, coordinator_data, watchlist_data, cyc_call>>

(* The key of the result dict a list type is stored under *)
ListKey(list_type) ==
    CASE list_type = "BidList" -> "bids"
      [] list_type = "WatchList" -> "watchlist"
      [] OTHER -> "purchases"

(* No call of the task is under way *)
ClientIdle(c) == client_calls[c].pc \in {"", "returned"}

(* get_my_ebay_buying from the cache test on, at time t: the stored result
   is returned, or the first BidList page is requested *)
CacheTest(call, t) ==
    IF CacheIsFresh(t)
    THEN [call EXCEPT !.pc = "returned", !.result = my_ebay_cache,
                      !.from_cache = TRUE, !.at = t]
    ELSE [call EXCEPT !.pc = "page", !.list_type = "BidList",
                      !.page_number = 1, !.requests = 1]

(* The requests a step added to the call of task c *)
Tracked(c, call) ==
    TrackApiCall(api_calls, "trading", call.requests - client_calls[c].requests)

(* get_my_ebay_buying is called by task c: up to its first await *)
BuyingBegin(c, in) ==
    /\ ClientIdle(c)
    /\ client_log.begun < MaxCalls
    /\ \E d \in {e \in in.elapsed : now + e <= MaxCacheNow} :
       \E call \in {[NoClientCall EXCEPT !.op = "get_my_ebay_buying",
                                         !.began = now + d]} :
       \E next \in {IF ebay_username = NoUser
                    THEN [call EXCEPT !.pc = "GetUser"]
                    ELSE CacheTest(call, now + d)} :
         /\ now' = now + d
         /\ client_calls' = [client_calls EXCEPT ![c] = next]
         /\ api_calls' = TrackApiCall(api_calls, "trading", next.requests)
         /\ client_log' = [client_log EXCEPT !.begun = @ + 1]
    /\ UNCHANGED <<cycleVars, browseVars, tradingVars>>

(* The GetUser request of task c is answered: _ebay_username is set when the
   answer carries a user id, and the call goes on to its cache test *)
BuyingUser(c, in) ==
    /\ client_calls[c].pc = "GetUser"
    /\ \E d \in {e \in in.elapsed : now + e <= MaxCacheNow},
          user_resp \in in.users :
       \E resolved \in {GetAuthenticatedUsername(NoUser, user_resp)} :
       \E next \in {CacheTest(client_calls[c], now + d)} :
         /\ now' = now + d
         /\ ebay_username' = IF resolved # NoUser THEN resolved
                             ELSE ebay_username
         /\ client_calls' = [client_calls EXCEPT ![c] = next]
         /\ api_calls' = Tracked(c, next)
    /\ UNCHANGED <<cycleVars, browseVars, my_ebay_cache, my_ebay_cache_time,
                   client_log>>

(* The loop of _fetch_my_ebay_list without its page limit *)
PageStep_NoLimit(call, response, username) ==
    LET extended == call.all_items
                    \o ParsePage(call.list_type, response.items, username)
    IN IF response.status # "200"
       THEN [done |-> TRUE, all_items |-> call.all_items]
       ELSE IF ~PageParses(response.items)
       THEN [done |-> TRUE, all_items |-> call.all_items]
       ELSE IF response.total_pages = 0
       THEN [done |-> TRUE, all_items |-> extended]
       ELSE IF call.page_number >= response.total_pages
       THEN [done |-> TRUE, all_items |-> extended]
       ELSE [done |-> FALSE, all_items |-> extended]

(* One pass of the while loop of _fetch_my_ebay_list over the answer to the
   page request: whether the loop ends, and all_items afterwards *)
PageStep(call, response, username) ==
    LET extended == call.all_items
                    \o ParsePage(call.list_type, response.items, username)
    IN IF response.status # "200"
       THEN [done |-> TRUE, all_items |-> call.all_items]
       ELSE IF ~PageParses(response.items)
       THEN [done |-> TRUE, all_items |-> call.all_items]
       ELSE IF response.total_pages = 0
       THEN [done |-> TRUE, all_items |-> extended]
       ELSE IF call.page_number >= response.total_pages
       THEN [done |-> TRUE, all_items |-> extended]
       ELSE [done |-> call.page_number + 1 > max_pages, all_items |-> extended]

(* The result dict get_my_ebay_buying builds from its three local lists *)
BuyingResult_FromCache(lists) ==
    IF my_ebay_cache = NoCache THEN lists
    ELSE [lists EXCEPT !.bids = my_ebay_cache[1].bids]

(* The result dict get_my_ebay_buying builds from its three local lists *)
BuyingResult(lists) ==
    [bids |-> lists.bids, watchlist |-> lists.watchlist,
     purchases |-> lists.purchases]

(* The call of task c after _fetch_my_ebay_list returned items for its list
   type, at time t: the next list's first page is requested, or the result
   is built *)
ListDone(call, items, t) ==
    LET lists == [call.lists EXCEPT ![ListKey(call.list_type)] = items]
        fetching == [call EXCEPT !.lists = lists, !.all_items = <<>>,
                                 !.page_number = 1, !.requests = @ + 1]
    IN IF call.list_type = "BidList"
       THEN [fetching EXCEPT !.list_type = "WatchList"]
       ELSE IF call.list_type = "WatchList"
       THEN [fetching EXCEPT !.list_type = "WonList"]
       ELSE [call EXCEPT !.pc = "returned", !.lists = lists,
                         !.all_items = <<>>,
                         !.result = <<BuyingResult(lists)>>, !.at = t]

(* The ids of the records a page request was answered with *)
Answered(response) ==
    IF response.status # "200" THEN <<>>
    ELSE [i \in DOMAIN response.items |-> response.items[i].item_id]

(* What the answer to the page request of a call said about paging *)
PageRecord(call, response) ==
    [list_type |-> call.list_type, page_number |-> call.page_number,
     status |-> response.status, total_pages |-> response.total_pages]

(* A page request of task c is answered *)
BuyingPage(c, in) ==
    /\ client_calls[c].pc = "page"
    /\ \E d \in {e \in in.elapsed : now + e <= MaxCacheNow} :
       \E response \in in.pages[client_calls[c].list_type] :
       \E call \in {[client_calls[c] EXCEPT
                        !.answers[ListKey(client_calls[c].list_type)] =
                            @ \o Answered(response),
                        !.paged = Append(@, PageRecord(client_calls[c],
                                                       response))]} :
       \E step \in {PageStep(call, response, ebay_username)} :
       \E next \in {IF step.done THEN ListDone(call, step.all_items, now + d)
                    ELSE [call EXCEPT !.all_items = step.all_items,
                                      !.page_number = @ + 1,
                                      !.requests = @ + 1]} :
         /\ now' = now + d
         /\ client_calls' = [client_calls EXCEPT ![c] = next]
         /\ api_calls' = Tracked(c, next)
         /\ IF next.pc = "returned"
            THEN /\ my_ebay_cache' = next.result
                 /\ my_ebay_cache_time' = now + d
                 /\ client_log' =
                      [client_log EXCEPT
                          !.passes = @ \cup {[by |-> c, began |-> next.began,
                                              at |-> now + d,
                                              result |-> next.result[1]]}]
            ELSE UNCHANGED <<my_ebay_cache, my_ebay_cache_time, client_log>>
    /\ UNCHANGED <<cycleVars, browseVars, ebay_username>>

(* Two tasks of different pollers calling get_my_ebay_buying of the client
   they share, each step at the time of the one before or 20 s later; the
   marketplace answers each page request with what it holds at that time *)
RacePages ==
    [list_type \in {"BidList", "WatchList", "WonList"} |->
        IF list_type = "BidList"
        THEN {OkPage(l, 1) :
                l \in UpToOne(RawBidsOf({"a"}, {<<"Z", "o">>},
                                        [id \in ItemIds |-> {ListingEndTime[id]}]))}
             \cup {FailPage("500")}
        ELSE IF list_type = "WatchList"
        THEN {OkPage(l, 1) : l \in UpToOne({r \in RawWatch : r.item_id = "b"
                                              /\ r.end_time # NoTime})}
        ELSE {OkPage(l, 1) :
                l \in UpToOne({RawPurchase("a", FALSE, "", FALSE, FALSE)})}]

RaceInputs ==
    [elapsed |-> {0, 20}, users |-> {UserResolved}, pages |-> RacePages]

NextRace ==
    \E c \in Callers :
        \/ BuyingBegin(c, RaceInputs)
        \/ BuyingUser(c, RaceInputs)
        \/ BuyingPage(c, RaceInputs)

SpecRace == InitOf({"bids"}) /\ [][NextRace]_vars

(* One task calling get_my_ebay_buying of a marketplace that reports more
   pages than the loop reads, ends the list, or fails; every request that
   was posted is answered or raises *)
ManyPages == max_pages + 2

PagedAnswers ==
    [list_type \in {"BidList", "WatchList", "WonList"} |->
        IF list_type = "BidList"
        THEN {OkPage(l, n) :
                l \in UpToOne(RawBidsOf({"a"}, {<<"Z", "o">>},
                                        [id \in ItemIds |-> {NoTime}])),
                n \in {0, 2, ManyPages}}
             \cup {FailPage("500"), FailPage("exc")}
        ELSE IF list_type = "WatchList"
        THEN {OkPage(<<>>, ManyPages)}
        ELSE {OkPage(<<>>, 1), OkPage(<<>>, 3)}]

PagesInputs == [elapsed |-> {0}, users |-> {UserResolved}, pages |-> PagedAnswers]

NextPages ==
    \/ BuyingBegin("t1", PagesInputs)
    \/ BuyingUser("t1", PagesInputs)
    \/ BuyingPage("t1", PagesInputs)

SpecPages == InitOf({"bids"}) /\ [][NextPages]_vars

SpecPagesFair ==
    /\ SpecPages
    /\ WF_vars(BuyingUser("t1", PagesInputs))
    /\ WF_vars(BuyingPage("t1", PagesInputs))

-----------------------------------------------------------------------------
(* Properties of the pollers *)

InPrior(id) == id \in DOMAIN cyc_prior
InFetched(id) == id \in Ids(cyc_fetched)

(* id was in the prior state of the last bids cycle and is not in its list *)
Vanished(id) == klass = "bids" /\ InPrior(id) /\ ~InFetched(id)

LookupFound(id) == Vanished(id) /\ cyc_lookups[id].kind = "item"
LookupFailed(id) == Vanished(id) /\ cyc_lookups[id].kind = "empty"
Terminal(id) == cyc_lookups[id].listing_status \in {"Completed", "Ended"}

WonLost(id) == Count("auction_won", id) + Count("auction_lost", id)

(* C1: a vanished item whose lookup returns a record with a non-terminal
   listing status gets neither auction_won nor auction_lost, whatever the
   cached is_high_bidder flag. *)
C1_StillActiveIsSilent ==
    \A id \in ItemIds :
        (LookupFound(id) /\ ~Terminal(id)) => WonLost(id) = 0

C1_Witness ==
    \E id \in ItemIds :
        /\ LookupFound(id)
        /\ cyc_lookups[id].listing_status = "Active"
        /\ cyc_prior[id].is_high_bidder
        /\ WonLost(id) = 0

(* C2: a vanished item whose lookup returns a record with a terminal listing
   status gets exactly one of auction_won / auction_lost: auction_won iff the
   account identity is resolved and equals the record's high bidder up to
   case; the cached flag plays no part. *)
NamesMatch(id) ==
    /\ ebay_username # NoUser
    /\ Lower(cyc_lookups[id].high_bidder_username) = Lower(ebay_username)

C2_VerifiedWonLost ==
    \A id \in ItemIds :
        (LookupFound(id) /\ Terminal(id)) =>
            /\ WonLost(id) = 1
            /\ Count("auction_won", id) = 1 <=> NamesMatch(id)

C2_Witness ==
    \E id \in ItemIds :
        /\ LookupFound(id)
        /\ Terminal(id)
        /\ ~cyc_prior[id].is_high_bidder
        /\ cyc_lookups[id].high_bidder_username # ebay_username
        /\ Count("auction_won", id) = 1
        /\ Count("auction_lost", id) = 0

(* C3: a vanished item whose lookup returns nothing gets exactly one event,
   chosen by the cached flag of the prior snapshot: auction_won when it is
   true, auction_lost otherwise; the cycle completes and replaces the prior
   state by the fetched list. *)
C3_FallbackToCachedFlag ==
    \A id \in ItemIds :
        LookupFailed(id) =>
            /\ WonLost(id) = 1
            /\ Count("auction_won", id) = 1 <=> cyc_prior[id].is_high_bidder
            /\ previous_data = ItemMap(cyc_fetched)

C3_Witness ==
    \E id \in ItemIds :
        /\ LookupFailed(id)
        /\ cyc_prior[id].is_high_bidder
        /\ Count("auction_won", id) = 1
        /\ Count("auction_lost", id) = 0
        /\ id \notin DOMAIN previous_data

(* C4: in the bids and purchases pollers, a cycle in which a page request
   of the poller's own list fails emits no event and leaves the in-memory
   prior state and the persisted blob as they were. *)
C4_FailedFetchAborts ==
    (klass \in {"bids", "purchases"} /\ cyc_fetch_failed) =>
        /\ events = EmptyBag
        /\ previous_data = cyc_prior
        /\ ~cyc_saved

(* A poll cycle has completed since the poller was constructed *)
CycleDone == state_loaded

MergedIds == cyc_prior_ids \cup Ids(cyc_fetched)

(* C5, as stated: after a cycle the bids/purchases prior state is the
   id-to-item map of the fetched list and the search seen-set is the prior
   seen-set united with the fetched ids. *)
C5_StateIsSnapshotOrUnion ==
    CycleDone =>
        /\ klass \in {"bids", "purchases"} => previous_data = ItemMap(cyc_fetched)
        /\ klass = "search" => previous_item_ids = MergedIds

(* C5, amended: every cycle completes; after it the bids/purchases prior
   state is the id-to-item map of the list the client returned, and the
   search seen-set is the prior seen-set united with the fetched ids when
   that union is within the history limit, else some subset of the union of
   exactly the limit's size; the blob written is that state. *)
C5_StateIsSnapshotOrCappedUnion ==
    CycleDone =>
        /\ klass \in {"bids", "purchases"} =>
              /\ previous_data = ItemMap(cyc_fetched)
              /\ cyc_saved => store = <<[previous_data |-> previous_data]>>
        /\ klass = "search" =>
              /\ IF Cardinality(MergedIds) <= MaxHistory
                 THEN previous_item_ids = MergedIds
                 ELSE /\ previous_item_ids \subseteq MergedIds
                      /\ Cardinality(previous_item_ids) = MaxHistory
              /\ cyc_saved => SetOf(store[1].previous_item_ids) = previous_item_ids

C5_Witness ==
    /\ CycleDone
    /\ klass = "search"
    /\ Cardinality(MergedIds) > MaxHistory
    /\ previous_item_ids # MergedIds
    /\ Ids(cyc_fetched) \ previous_item_ids # {}

(* The high-bidder flags the fetched list carries for id *)
FetchedFlags(id) ==
    {cyc_fetched[i].is_high_bidder :
        i \in {j \in DOMAIN cyc_fetched : cyc_fetched[j].item_id = id}}

(* C6: for an item in the prior state and in the current list, the flag
   going false to true emits exactly one became_high_bidder and no outbid,
   true to false exactly one outbid and no became_high_bidder, and an
   unchanged flag neither. *)
C6_HighBidderTransitions ==
    \A id \in ItemIds : \A is_high \in BOOLEAN :
        (klass = "bids" /\ InPrior(id) /\ FetchedFlags(id) = {is_high}) =>
            LET was_high == cyc_prior[id].is_high_bidder
            IN /\ Count("became_high_bidder", id) =
                      (IF is_high /\ ~was_high THEN 1 ELSE 0)
               /\ Count("outbid", id) = (IF ~is_high /\ was_high THEN 1 ELSE 0)

(* The current list holds id with more than 0 and at most 15 minutes left *)
InEndingWindow(id) ==
    \E i \in DOMAIN cyc_fetched :
        /\ cyc_fetched[i].item_id = id
        /\ cyc_fetched[i].end_time # NoTime
        /\ 0 < cyc_fetched[i].end_time - now
        /\ cyc_fetched[i].end_time - now <= 15 * 60

(* This poller fired no auction_ending_soon for id in the 10 minutes before
   the last cycle *)
CooledDown(id) ==
    \/ cyc_soon_log[id] = NoTime
    \/ now - cyc_soon_log[id] > 10 * 60

(* C7: a bids cycle emits auction_ending_soon for an item at most once, and
   exactly when the current list holds the item with more than 0 and at
   most 15 minutes remaining and the poller emitted none for it in the
   preceding 10 minutes; whether the item is new or a high-bidder event
   fires for it in the same cycle plays no part. *)
C7_EndingSoonWindowAndCooldown ==
    \A id \in ItemIds :
        klass = "bids" =>
            /\ Count("auction_ending_soon", id) <= 1
            /\ Count("auction_ending_soon", id) = 1
                  <=> (InEndingWindow(id) /\ CooledDown(id))

C7_Witness ==
    \E id \in ItemIds :
        /\ cyc_soon_log[id] # NoTime
        /\ Count("auction_ending_soon", id) = 1
        /\ Count("became_high_bidder", id) = 1

(* C8: in one cycle no event is published twice for the same item id and
   event kind. *)
C8_OneEventPerItemAndKind ==
    \A e \in BagToSet(events) : CopiesIn(e, events) <= 1

Rank(shipping_status) ==
    CASE shipping_status = "pending" -> 0
      [] shipping_status = "shipped" -> 1
      [] shipping_status = "delivered" -> 2

(* The shipping statuses the fetched list carries for id *)
FetchedStatuses(id) ==
    {cyc_fetched[i].shipping_status :
        i \in {j \in DOMAIN cyc_fetched : cyc_fetched[j].item_id = id}}

(* C9: a purchase of the prior state that the current list holds once, with
   a shipping status earlier in pending < shipped < delivered than its prior
   one, gets neither item_shipped nor item_delivered. *)
C9_BackwardIsSilent ==
    \A id \in ItemIds :
        (/\ klass = "purchases"
         /\ InPrior(id)
         /\ Occurrences(cyc_fetched, id) = 1
         /\ \A st \in FetchedStatuses(id) :
                Rank(st) < Rank(cyc_prior[id].shipping_status)) =>
            /\ Count("item_shipped", id) = 0
            /\ Count("item_delivered", id) = 0

(* C10: for a purchase of the prior state that the current list holds:
   pending to shipped emits exactly one item_shipped and no item_delivered,
   shipped to delivered exactly one item_delivered and no item_shipped, and
   an unchanged status neither. *)
C10_ShippingSequence ==
    \A id \in ItemIds : \A st \in {"pending", "shipped", "delivered"} :
        (klass = "purchases" /\ InPrior(id) /\ FetchedStatuses(id) = {st}) =>
            LET was == cyc_prior[id].shipping_status
            IN /\ (was = "pending" /\ st = "shipped") =>
                    /\ Count("item_shipped", id) = 1
                    /\ Count("item_delivered", id) = 0
               /\ (was = "shipped" /\ st = "delivered") =>
                    /\ Count("item_delivered", id) = 1
                    /\ Count("item_shipped", id) = 0
               /\ was = st =>
                    /\ Count("item_shipped", id) = 0
                    /\ Count("item_delivered", id) = 0

(* C11: in a cycle of the purchases poller every item of the fetched list
   whose id is not in the prior state gets exactly one new_purchase and
   neither item_shipped nor item_delivered, whatever its shipping status,
   and an item of the prior state gets no new_purchase. *)
C11_NewPurchaseOnce ==
    \A id \in ItemIds :
        klass = "purchases" =>
            /\ (InFetched(id) /\ ~InPrior(id)) =>
                    /\ Count("new_purchase", id) = 1
                    /\ Count("item_shipped", id) = 0
                    /\ Count("item_delivered", id) = 0
            /\ InPrior(id) => Count("new_purchase", id) = 0

(* C12: over the cycles of one search poller object whose seen-set has
   stayed within its cap, new_search_result is fired for an id only in a
   cycle at whose start the id is not in the seen-set, and never for an id
   the poller has recorded as seen before, also when the id was missing from
   the results of the cycles in between. *)
C12_SeenNeverEmitsAgain ==
    [][\A id \in SearchIds :
         (klass = "search" /\ Count("new_search_result", id)' > 0) =>
            /\ id \notin cyc_prior_ids'
            /\ Cardinality(seen_log') <= MaxHistory => id \notin seen_log]_vars

(* An id of the seen-set comes back after a cycle whose results did not hold
   it, and gets no event *)
C12_Witness ==
    \E id \in SearchIds :
        /\ klass = "search"
        /\ cyc_prev_fetched # <<>>
        /\ id \notin Ids(cyc_prev_fetched[1])
        /\ id \in cyc_prior_ids
        /\ InFetched(id)
        /\ Cardinality(seen_log) <= MaxHistory
        /\ Count("new_search_result", id) = 0
        /\ \E other \in SearchIds : Count("new_search_result", other) > 0

(* Every id occurs at most once in the list *)
Distinct(list) == \A i, j \in DOMAIN list :
                     list[i].item_id = list[j].item_id => i = j

Min(a, b) == IF a <= b THEN a ELSE b

(* C13: a search cycle that starts with an empty seen-set and fetches n
   distinct results fires new_search_result for exactly the first min(n, 5)
   of them in fetch order and records all n ids as seen; a cycle that
   starts with a non-empty seen-set fires one event for every result that is
   not in it, however many; and a cycle that fetches the same results as the
   cycle right before it fires nothing. *)
C13_FirstRunCap ==
    (klass = "search" /\ CycleDone /\ Distinct(cyc_fetched)) =>
        LET n == Len(cyc_fetched)
            id(i) == cyc_fetched[i].item_id
            fired(i) == Count("new_search_result", id(i))
        IN /\ cyc_prior_ids = {} =>
                /\ \A i \in 1..n :
                      fired(i) = IF i <= FIRST_RUN_MAX_EVENTS THEN 1 ELSE 0
                /\ BagCardinality(events) = Min(n, FIRST_RUN_MAX_EVENTS)
                /\ Ids(cyc_fetched) \subseteq previous_item_ids
           /\ cyc_prior_ids # {} =>
                /\ \A i \in 1..n :
                      fired(i) = IF id(i) \in cyc_prior_ids THEN 0 ELSE 1
                /\ BagCardinality(events) =
                      Cardinality(Ids(cyc_fetched) \ cyc_prior_ids)
           /\ cyc_prev_fetched = <<cyc_fetched>> => events = EmptyBag

(* A first cycle with more than five results: the sixth gets no event *)
C13_Witness ==
    /\ klass = "search"
    /\ CycleDone
    /\ cyc_prior_ids = {}
    /\ Len(cyc_fetched) = FIRST_RUN_MAX_EVENTS + 1
    /\ Distinct(cyc_fetched)
    /\ BagCardinality(events) = FIRST_RUN_MAX_EVENTS
    /\ Count("new_search_result", cyc_fetched[FIRST_RUN_MAX_EVENTS + 1].item_id) = 0
    /\ cyc_fetched[FIRST_RUN_MAX_EVENTS + 1].item_id \in previous_item_ids

(* The last cycle's diff was given the snapshots and lookup results of the
   remembered earlier cycle *)
Replayed ==
    /\ first_eval # <<>>
    /\ CycleDone
    /\ now > first_eval[1].at
    /\ cyc_prior = first_eval[1].prior
    /\ cyc_prior_ids = first_eval[1].prior_ids
    /\ cyc_fetched = first_eval[1].fetched
    /\ cyc_lookups = first_eval[1].lookups

(* The events of bag that are not of the kind *)
Without(bag, kind) ==
    LET kept == {e \in BagToSet(bag) : e.kind # kind}
    IN [e \in kept |-> CopiesIn(e, bag)]

(* C14: a cycle whose diff is given the prior state, the current snapshot
   and the lookup results of an earlier cycle fires exactly the events that
   earlier cycle fired, auction_ending_soon included. *)
C14_ReplaySameEvents ==
    Replayed => events = first_eval[1].events

(* C14, amended: with the account identity of the earlier cycle, the cycle
   fires the earlier cycle's events of every kind but auction_ending_soon;
   auction_ending_soon fires in it, once, exactly for the items then within
   their last 15 minutes for which this poller object fired none in the
   10 minutes before. *)
C14_ReplaySameEventsButEndingSoon ==
    (Replayed /\ ebay_username = first_eval[1].username) =>
        /\ Without(events, "auction_ending_soon")
              = Without(first_eval[1].events, "auction_ending_soon")
        /\ klass = "bids" =>
              \A id \in ItemIds :
                  Count("auction_ending_soon", id) =
                      (IF InEndingWindow(id) /\ CooledDown(id) THEN 1 ELSE 0)

(* The replay drops the auction_ending_soon of the first evaluation and
   repeats its other event *)
C14_Witness ==
    /\ Replayed
    /\ ebay_username = first_eval[1].username
    /\ \E id \in ItemIds :
          /\ CopiesIn(Event("auction_ending_soon", id), first_eval[1].events) = 1
          /\ Count("auction_ending_soon", id) = 0
          /\ InEndingWindow(id)
          /\ Count("became_high_bidder", id) = 1

(* C15: the first cycle of a poller object built by a restart, having
   loaded the state its predecessor held and persisted, fires the events
   the predecessor would have fired for the same fetched list had it run
   the cycle itself. *)
C15_RestartIsTransparent ==
    cyc_continued # <<>> => events = cyc_continued[1]

(* C16: of one poller, at most one execution of _async_update_data is under
   way at any time. *)
C16_CyclesNeverOverlap ==
    Len(running) <= 1

(* C17: every well-formed record among the records eBay returned to a cycle
   is in the list the cycle works on, whatever other records of the same
   batch cannot be parsed, and the cycle completes. *)
C17_OnlyUnparsableRecordSkipped ==
    /\ \A i \in DOMAIN cyc_batch :
          cyc_batch[i].well_formed => InFetched(cyc_batch[i].item_id)
    /\ cyc_batch # <<>> => CycleDone

(* C18: a search cycle whose token is unavailable or whose Browse request
   is answered with a non-200 status, an exception, a body that is no JSON
   or an errors list completes with no results, fires no event and leaves
   the seen-set as it was. *)
C18_FailedSearchIsEmptyRefresh ==
    (klass = "search" /\ CycleDone /\ cyc_fetch_failed) =>
        /\ cyc_fetched = <<>>
        /\ events = EmptyBag
        /\ previous_item_ids = cyc_prior_ids

(* A failed search after the seen-set has been filled *)
C18_Witness ==
    /\ klass = "search"
    /\ CycleDone
    /\ cyc_fetch_failed
    /\ oauth_token # NoToken
    /\ cyc_prior_ids # {}
    /\ previous_item_ids = cyc_prior_ids
    /\ events = EmptyBag

(* C19: a search cycle that begins after a token request of this client
   has failed issues a new token request. *)
C19_FailedTokenIsRequestedAgain ==
    (klass = "search" /\ CycleDone /\ token_log.cyc_after_failure) =>
        token_log.cyc_requested

(* C19, amended: a search cycle that begins after a token request of this
   client has failed issues no token request and gets no results, and the
   client stays so until a restart builds a new one, whose first cycle does
   issue a token request. *)
C19_FailedTokenIsFinal ==
    (klass = "search" /\ CycleDone) =>
        /\ token_log.cyc_after_failure =>
              /\ ~token_log.cyc_requested
              /\ cyc_fetched = <<>>
              /\ token_log.failed
        /\ cyc_prev_fetched = <<>> => token_log.cyc_requested

(* The cycle after a failed token request: no request, no results *)
C19_Witness ==
    /\ klass = "search"
    /\ CycleDone
    /\ token_log.cyc_after_failure
    /\ ~token_log.cyc_requested
    /\ cyc_prev_fetched # <<>>
    /\ cyc_fetched = <<>>

(* C20: while the account identity is unresolved every bid returned by
   get_my_ebay_buying has is_high_bidder false; a failed identity call leaves
   the call returning the records of the lists; a call that begins with the
   identity unresolved issues the identity call, and one that begins with it
   resolved does not and keeps the identity. *)
C20_IdentityDegradesAndRetries ==
    (klass \in {"bids", "purchases"} /\ CycleDone) =>
        /\ (klass = "bids" /\ ebay_username = NoUser) =>
              \A i \in DOMAIN cyc_fetched : ~cyc_fetched[i].is_high_bidder
        /\ (\A i \in DOMAIN cyc_batch : cyc_batch[i].well_formed) =>
              [i \in DOMAIN cyc_fetched |-> cyc_fetched[i].item_id]
                  = [i \in DOMAIN cyc_batch |-> cyc_batch[i].item_id]
        /\ cyc_identity.before = NoUser => cyc_identity.requested
        /\ cyc_identity.before # NoUser =>
              /\ ~cyc_identity.requested
              /\ ebay_username = cyc_identity.before

(* A later call of a client whose identity call failed before and fails
   again, returning bids *)
C20_Witness ==
    /\ klass = "bids"
    /\ CycleDone
    /\ cyc_prev_fetched # <<>>
    /\ cyc_identity.before = NoUser
    /\ cyc_identity.requested
    /\ ebay_username = NoUser
    /\ cyc_fetched # <<>>
    /\ cyc_prev_fetched[1] # <<>>

(* C21: a get_my_ebay_buying call that finds a stored result issues no list
   request and returns the stored result, leaving the cache as it is, iff
   the result was stored less than 30 s before; otherwise it requests the
   three lists and stores what it got with the time of the call.  Whose call
   it is and what the cache holds make no difference. *)
C21_CacheByAgeOnly ==
    cyc_call.had_cache =>
        /\ (cyc_call.requests = 0) <=> (cyc_call.age < MY_EBAY_CACHE_DURATION)
        /\ cyc_call.age < MY_EBAY_CACHE_DURATION =>
              /\ cyc_call.returned_stored
              /\ my_ebay_cache_time = now - cyc_call.age
        /\ cyc_call.age >= MY_EBAY_CACHE_DURATION =>
              /\ cyc_call.requests >= 3
              /\ my_ebay_cache_time = now
        /\ cyc_call.caller = "bids" => my_ebay_cache[1].bids = cyc_fetched
        /\ cyc_call.caller = "purchases" =>
              my_ebay_cache[1].purchases = cyc_fetched

(* The refresh of the watchlist poller 19 s after the bids poller's fetch
   stored a result with a bid: no list request *)
C21_Witness ==
    /\ klass = "bids"
    /\ cyc_call.caller = "watchlist"
    /\ cyc_call.had_cache
    /\ cyc_call.age = 19
    /\ cyc_call.requests = 0
    /\ cyc_call.returned_stored
    /\ cyc_fetched # <<>>
    /\ my_ebay_cache[1].bids = cyc_fetched
    /\ api_calls["trading"].count = 3

-----------------------------------------------------------------------------
(* Properties of the search services *)

(* C22: once delete_search has returned for a search, its id is in neither
   the registry nor the saved searches, its coordinator has run no cycle
   since, and no seen-set blob of that search is left in the Store *)
C22_DeleteTearsDown ==
    \A id \in DOMAIN deleted :
        /\ id \notin searches
        /\ id \notin DOMAIN search_store
        /\ id \in DOMAIN search_coordinators =>
              search_coordinators[id].cycles = deleted[id]
        /\ id \notin DOMAIN search_state

(* A handler of the service op returns in this step *)
ServiceReturns(op) ==
    \E c \in Callers :
        /\ service_calls[c].op = op
        /\ service_calls[c].pc = "save"
        /\ service_calls'[c] = NoServiceCall

(* What update_search has done when it returns, against the registry,
   coordinators and stores it met *)
UpdateFrame ==
    LET call == cyc_service
        id == call.search_id
        data == call.data
        old == call.before.search_coordinators[id]
        new == search_coordinators[id]
    IN /\ searches = call.before.searches
       /\ id \in searches
       /\ DOMAIN search_coordinators = DOMAIN call.before.search_coordinators
       /\ new.instance = old.instance
       /\ new.entities = old.entities
       /\ new.cyc_prior_ids = old.previous_item_ids
       /\ \A key \in {"search_query", "site", "listing_type",
                      "update_interval"} :
            new.search_config[key] = IF key \in data.keys THEN data[key]
                                     ELSE old.search_config[key]
       /\ new.update_interval =
            IF /\ "update_interval" \in data.keys
               /\ data.update_interval # old.search_config.update_interval
            THEN data.update_interval
            ELSE old.update_interval
       /\ new.cycles = old.cycles + 1
       /\ new.cyc_config = new.search_config
       /\ DOMAIN search_store = DOMAIN call.before.search_store \cup {id}
       /\ search_store[id] = new.search_config
       /\ \A other \in DOMAIN call.before.search_coordinators \ {id} :
            /\ search_coordinators[other]
                 = call.before.search_coordinators[other]
            /\ search_state[other] = call.before.search_state[other]
       /\ \A other \in DOMAIN call.before.search_store \ {id} :
            search_store[other] = call.before.search_store[other]

(* C23: update_search keeps the search's id, its coordinator object and the
   seen-set the cycle starts from; it replaces exactly the fields call.data
   holds, sets the coordinator's interval iff the supplied one differs from
   the stored one, runs exactly one cycle with the new config, saves the
   config, and leaves every other search, coordinator and blob as it was *)
C23_UpdateChangesSuppliedFieldsOnly ==
    [][ServiceReturns("update") => UpdateFrame']_vars

C23_Witness ==
    /\ cyc_service.op = "update"
    /\ service_calls["t1"] = NoServiceCall
    /\ cyc_service.data.keys = {"search_query"}
    /\ Cardinality(searches) = 2
    /\ LET id == cyc_service.search_id
           old == cyc_service.before.search_coordinators[id]
       IN /\ search_coordinators[id].cycles = old.cycles + 1
          /\ old.search_config.search_query = "lego"
          /\ search_coordinators[id].search_config.search_query = "nikon"
          /\ search_coordinators[id].search_config.listing_type = "auction"
          /\ search_coordinators[id].update_interval = LongInterval
          /\ search_store[id].search_query = "nikon"
          /\ search_coordinators[id].previous_item_ids # {}

(* No handler of a search service is suspended *)
AllReturned == \A c \in Callers : service_calls[c] = NoServiceCall

(* C24: when every create_search, update_search and delete_search call has
   returned, the registry and the saved searches hold the same ids, each
   registered id has its coordinator, and every id a create_search made
   that no delete_search removed is in both *)
C24_RegistryMatchesStore ==
    AllReturned =>
        /\ searches = DOMAIN search_store
        /\ searches \subseteq DOMAIN search_coordinators
        /\ DOMAIN search_coordinators \ DOMAIN deleted
             \subseteq (searches \cap DOMAIN search_store)

-----------------------------------------------------------------------------
(* Properties of the local call tracking *)

(* The step is a call of get_rate_limits or reset_rate_limit_tracking *)
TrackerCall(op) == rate_info' # rate_info /\ rate_info'.op = op

(* C25: in every step of the client other than reset_rate_limit_tracking
   the count of each API does not decrease and its last_reset stays;
   reset_rate_limit_tracking sets every count to 0 and every last_reset to
   the time of the call; get_rate_limits changes nothing of the client and
   issues no request *)
C25_CountersOnlyGrow ==
    [][/\ TrackerCall("reset_rate_limit_tracking") =>
            \A api \in Apis :
                api_calls'[api] = [count |-> 0, last_reset |-> now']
       /\ ~TrackerCall("reset_rate_limit_tracking") =>
            \A api \in Apis :
                /\ api_calls'[api].count >= api_calls[api].count
                /\ api_calls'[api].last_reset = api_calls[api].last_reset
       /\ TrackerCall("get_rate_limits") =>
            /\ UNCHANGED <<api_calls, now, tradingVars, browseVars, cyc_call,
                           token_log, cyc_identity, cyc_lookups, cyc_fetched>>
            /\ rate_info'.returned.calls_made
                 = [api \in Apis |-> api_calls[api].count]]_vars

C25_Witness ==
    /\ rate_info.op = "get_rate_limits"
    /\ rate_info.at = now
    /\ rate_info.returned.tracking_start > 0
    /\ rate_info.returned.calls_made["trading"] >= 1
    /\ rate_info.returned.calls_made["shopping"] >= 1
    /\ rate_info.returned.total_calls
         = api_calls["trading"].count + api_calls["shopping"].count

-----------------------------------------------------------------------------
(* Properties of the watchlist poller *)

(* The step is a cycle of the watchlist poller *)
WatchlistCycle == now' # now /\ cyc_call'.caller = "watchlist"

(* C26: a cycle of the watchlist poller fires no event and neither loads
   nor saves anything in the Store, whatever the watchlist it fetched *)
C26_WatchlistIsSilent ==
    [][WatchlistCycle =>
         UNCHANGED <<events, store, state_loaded, previous_data,
                     previous_item_ids, cyc_saved, search_state,
                     search_store>>]_vars

C26_Witness ==
    /\ cyc_call.caller = "watchlist"
    /\ cyc_call.requests >= 3
    /\ watchlist_data # <<>>
    /\ my_ebay_cache[1].watchlist # <<>>
    /\ events # EmptyBag
    /\ store # NoBlob

-----------------------------------------------------------------------------
(* Properties of the returned lists *)

HasEndTime(item) == TimeStr(item) \notin {NoTime, UnparsableTime}

(* The bijections of 1..n *)
Bijections(n) ==
    {f \in [1..n -> 1..n] : \A i, j \in 1..n : f[i] = f[j] => i = j}

(* returned holds the entries of fetched, those with an end time first and
   in non-decreasing order of it, the others after them, and two entries
   with the same end time, or both without one, in their order in fetched *)
OrderedByEndTime(fetched, returned) ==
    /\ Len(returned) = Len(fetched)
    /\ \E f \in Bijections(Len(fetched)) :
        /\ \A p \in DOMAIN returned : returned[p] = fetched[f[p]]
        /\ \A p, q \in DOMAIN returned :
             p < q =>
                /\ HasEndTime(returned[q]) =>
                      /\ HasEndTime(returned[p])
                      /\ TimeStr(returned[p]) <= TimeStr(returned[q])
                /\ \/ ~HasEndTime(returned[p]) /\ ~HasEndTime(returned[q])
                   \/ /\ HasEndTime(returned[p]) /\ HasEndTime(returned[q])
                      /\ TimeStr(returned[p]) = TimeStr(returned[q])
                   => f[p] < f[q]

(* C27: the list a bids, watchlist or search cycle returns is the fetched
   list reordered: ascending end time, entries with a missing or
   unparsable end time after all others, equal keys in fetched order *)
C27_SortedByEndTime ==
    /\ state_loaded => OrderedByEndTime(cyc_fetched, coordinator_data)
    /\ cyc_call.caller = "watchlist" =>
          OrderedByEndTime(my_ebay_cache[1].watchlist, watchlist_data)

C27_Witness ==
    /\ klass = "bids"
    /\ Len(cyc_fetched) = 2
    /\ ~HasEndTime(cyc_fetched[1])
    /\ HasEndTime(cyc_fetched[2])
    /\ coordinator_data = <<cyc_fetched[2], cyc_fetched[1]>>

(* C28: the list a purchases cycle returns is the fetched list reordered by
   the time of the purchase, the most recent first *)
C28_PurchasesNewestFirst ==
    klass = "purchases" /\ state_loaded =>
        /\ Len(coordinator_data) = Len(cyc_fetched)
        /\ \E f \in Bijections(Len(cyc_fetched)) :
             \A p \in DOMAIN coordinator_data :
                coordinator_data[p] = cyc_fetched[f[p]]
        /\ \A p, q \in DOMAIN coordinator_data :
             p < q => TransactionTime[coordinator_data[p].item_id]
                        >= TransactionTime[coordinator_data[q].item_id]

-----------------------------------------------------------------------------
(* Properties of the search history *)

(* C29: after every cycle of a search poller its seen-set holds at most as
   many ids as the history limit (1000 in the code, MaxHistory here), and
   so does every blob in its Store *)
C29_SeenSetIsCapped ==
    klass = "search" =>
        /\ Cardinality(previous_item_ids) <= MaxHistory
        /\ store # NoBlob => Len(store[1].previous_item_ids) <= MaxHistory

C29_Witness ==
    /\ klass = "search"
    /\ state_loaded
    /\ cyc_saved
    /\ Cardinality(cyc_prior_ids \cup Ids(cyc_fetched)) > MaxHistory
    /\ Cardinality(previous_item_ids) = MaxHistory
    /\ Len(store[1].previous_item_ids) = MaxHistory

(* C30: the cut keeps the ids seen last: after a cycle every id of its
   results is in the seen-set, and a cycle of the same poller object that
   gets the results of the cycle before fires no new_search_result *)
C30_TrimKeepsCurrentResults ==
    klass = "search" /\ state_loaded =>
        /\ Ids(cyc_fetched) \subseteq previous_item_ids
        /\ cyc_prev_fetched = <<cyc_fetched>> => events = EmptyBag

-----------------------------------------------------------------------------
(* _get_oauth_token as concurrent tasks run it *)

(* The call returns token at time t *)
TokenReturned(call, token, t) ==
    [call EXCEPT !.pc = "returned", !.token = token, !.at = t]

(* _get_oauth_token is called by task c: the stored token is returned while
   it is valid, None after a failure, and otherwise the request is posted *)
TokenBegin(c, in) ==
    /\ ClientIdle(c)
    /\ client_log.begun < MaxCalls
    /\ \E d \in in.elapsed :
       \E call \in {[NoClientCall EXCEPT !.op = "_get_oauth_token",
                                         !.began = now + d]} :
         /\ now' = now + d
         /\ client_calls' =
              [client_calls EXCEPT ![c] =
                  IF /\ oauth_token # NoToken
                     /\ oauth_token_expires # NoTime
                     /\ now + d < oauth_token_expires
                  THEN TokenReturned(call, oauth_token, now + d)
                  ELSE IF oauth_failed
                  THEN TokenReturned(call, NoToken, now + d)
                  ELSE [call EXCEPT !.pc = "token", !.requests = 1]]
    /\ client_log' = [client_log EXCEPT !.begun = @ + 1]
    /\ UNCHANGED <<cycleVars, browseVars, tradingVars, api_calls>>

(* The client's token fields after the answer resp to a token request, at
   time t *)
StoreToken(resp, t) ==
    IF resp.status # "200"
    THEN [oauth_token |-> oauth_token, expires |-> oauth_token_expires,
          failed |-> TRUE, token |-> NoToken]
    ELSE [oauth_token |-> resp.access_token,
          expires |-> t + resp.expires_in - OAUTH_EXPIRY_MARGIN,
          failed |-> oauth_failed, token |-> resp.access_token]

(* The token request of task c is answered *)
TokenResponse(c, in) ==
    /\ client_calls[c].pc = "token"
    /\ \E d \in in.elapsed, resp \in in.tokens :
       \E auth \in {StoreToken(resp, now + d)} :
         /\ now' = now + d
         /\ oauth_token' = auth.oauth_token
         /\ oauth_token_expires' = auth.expires
         /\ oauth_failed' = auth.failed
         /\ client_calls' =
              [client_calls EXCEPT ![c] =
                  TokenReturned(client_calls[c], auth.token, now + d)]
         /\ client_log' =
              [client_log EXCEPT
                  !.grants = @ \cup {[by |-> c, began |-> client_calls[c].began,
                                      at |-> now + d, ok |-> resp.status = "200",
                                      token |-> auth.oauth_token,
                                      expires |-> auth.expires]}]
    /\ UNCHANGED <<cycleVars, tradingVars, api_calls>>

(* Two tasks calling _get_oauth_token of the client they share (search
   pollers whose cycles coincide), each step at the time of the one before,
   10 s later or when a token granted at the step before expires *)
TokenInputs ==
    [elapsed |-> {0, 10, 7200 - OAUTH_EXPIRY_MARGIN},
     tokens |-> {r \in TokenResponses : r.status # "exc"}]

NextTokens ==
    \E c \in Callers :
        \/ TokenBegin(c, TokenInputs)
        \/ TokenResponse(c, TokenInputs)

SpecTokens == InitOf({"search"}) /\ [][NextTokens]_vars

-----------------------------------------------------------------------------
(* Claims about the calls of the shared client *)

BuyingReturned(c) ==
    /\ client_calls[c].op = "get_my_ebay_buying"
    /\ client_calls[c].pc = "returned"

ListKeys == {"bids", "watchlist", "purchases"}

(* Every list of the call's result holds the records its own page requests
   were answered with *)
OwnPass(call) ==
    /\ ~call.from_cache
    /\ \A key \in ListKeys :
        [i \in DOMAIN call.result[1][key] |-> call.result[1][key][i].item_id]
            = call.answers[key]

(* The call's result is the result of one completed pass, stored less than
   the cache duration before the call's cache test *)
CachedPass(call) ==
    /\ call.from_cache
    /\ call.requests = 0
    /\ \E p \in client_log.passes :
        /\ p.result = call.result[1]
        /\ p.at <= call.at
        /\ call.at - p.at < MY_EBAY_CACHE_DURATION

(* The cache and its time are both unset, or they are the result and the
   completion time of one pass, the one that completed last *)
CacheIsOnePass ==
    IF my_ebay_cache = NoCache
    THEN my_ebay_cache_time = NoTime /\ client_log.passes = {}
    ELSE /\ \E p \in client_log.passes :
              p.result = my_ebay_cache[1] /\ p.at = my_ebay_cache_time
         /\ \A q \in client_log.passes : q.at <= my_ebay_cache_time

(* C31: whatever the interleaving of the get_my_ebay_buying calls of
   different tasks, every call that returned holds either the three lists its
   own page requests were answered with or the result of one completed pass
   that was stored less than 30 s before; the cache and its time are both
   unset or both those of the pass that completed last *)
C31_RaceCostsFetchesOnly ==
    /\ CacheIsOnePass
    /\ \A c \in Callers :
        BuyingReturned(c) => OwnPass(client_calls[c]) \/ CachedPass(client_calls[c])

(* Two passes that overlapped in time and fetched different bids have
   completed, and a third call was served the stored result *)
C31_Witness ==
    /\ \E p, q \in client_log.passes :
        /\ p.by # q.by
        /\ p.began < q.at /\ q.began < p.at
        /\ p.result.bids # q.result.bids
    /\ \E c \in Callers : BuyingReturned(c) /\ client_calls[c].from_cache

(* C32: whatever the interleaving of the token requests, the stored token
   and its expiry are those of one answered request; and when a request that
   failed ran at the same time as the one that obtained the stored token,
   the client returns that token while it is valid and posts a new request
   once it has expired *)
C32_FailedAttemptIsHarmless ==
    /\ \/ oauth_token = NoToken /\ oauth_token_expires = NoTime
       \/ \E g \in client_log.grants :
            g.ok /\ g.token = oauth_token /\ g.expires = oauth_token_expires
    /\ \A g, f \in client_log.grants :
        /\ g.ok /\ ~f.ok
        /\ g.began <= f.at /\ f.began <= g.at
        /\ g.token # NoToken
        /\ g.token = oauth_token /\ g.expires = oauth_token_expires
        => IF now < oauth_token_expires
           THEN GetOAuthToken(CHOOSE r \in TokenResponses : TRUE, now).token
                    = oauth_token
           ELSE TokenRequested(now)

(* C33: a bids, purchases or search poller does not read the Store when it
   is constructed; the read is attempted exactly once over the poller
   object's lifetime, at the start of its first cycle and before the request
   to eBay, and never again, whether it succeeded, returned nothing or
   failed *)
C33_LoadedOnceBeforeFirstFetch ==
    /\ store_log.loads <= 1
    /\ state_loaded => store_log.loads = 1
    /\ \A i \in DOMAIN store_log.ops :
          store_log.ops[i].op = "async_load" => i = 1 /\ cyc_prev_fetched = <<>>
    /\ state_loaded /\ cyc_prev_fetched = <<>> =>
          /\ store_log.ops[1].op = "async_load"
          /\ store_log.ops[2].op \in {"get_my_ebay_buying", "search_items"}

(* The cycle that ended was the first of its poller object and its load of
   the Store failed *)
LoadFailed ==
    /\ state_loaded
    /\ store_log.ops # <<>>
    /\ store_log.ops[1] = [op |-> "async_load", ok |-> FALSE]

(* The entries of a list up to the first-run cap *)
CappedPrefix(list) ==
    SubSeq(list, 1, IF Len(list) < FIRST_RUN_MAX_EVENTS THEN Len(list)
                    ELSE FIRST_RUN_MAX_EVENTS)

(* C34: when the load of the Store fails or returns nothing, the first cycle
   runs with an empty prior state: the bids poller looks up and resolves no
   vanished item, the purchases poller fires new_purchase for every current
   purchase, the search poller takes every result for unseen under the
   first-run cap, and the cycle returns its sorted list *)
C34_FailedLoadIsEmptyPrior ==
    [][(~state_loaded /\ state_loaded'
        /\ (store = NoBlob \/ ~store_log'.ops[1].ok)) =>
         /\ cyc_prior' = EmptyMap
         /\ cyc_prior_ids' = {}
         /\ klass = "bids" =>
               /\ cyc_lookups' = EmptyMap
               /\ api_calls'.shopping.count = api_calls.shopping.count
               /\ \A e \in BagToSet(events') : e.kind = "auction_ending_soon"
               /\ coordinator_data' = SortByEndTime(cyc_fetched')
         /\ klass = "purchases" =>
               /\ \A id \in ItemIds :
                     CopiesIn(Event("new_purchase", id), events')
                       = Occurrences(cyc_fetched', id)
               /\ \A e \in BagToSet(events') : e.kind = "new_purchase"
               /\ coordinator_data' = SortByPurchaseDate(cyc_fetched')
         /\ klass = "search" =>
               /\ \A e \in BagToSet(events') :
                     /\ e.kind = "new_search_result"
                     /\ CopiesIn(e, events')
                          = Occurrences(CappedPrefix(cyc_fetched'), e.item_id)
               /\ \A id \in Ids(CappedPrefix(cyc_fetched')) :
                     BagIn(Event("new_search_result", id), events')
               /\ Ids(cyc_fetched') \subseteq seen_log'
               /\ coordinator_data' = SortByEndTime(cyc_fetched')]_vars

(* A restarted search poller whose load failed while the Store held the
   seen-set of its predecessor has fired for the first five of six results *)
C34_Witness ==
    /\ LoadFailed
    /\ klass = "search"
    /\ store # NoBlob
    /\ cyc_prior_ids = {}
    /\ Len(cyc_fetched) > FIRST_RUN_MAX_EVENTS
    /\ BagCardinality(events) = FIRST_RUN_MAX_EVENTS

(* The timestamp of a saved entry parses and is older than t less the
   retention *)
OlderThanRetention(item, t) ==
    /\ CleanTimeStr(item) \notin {NoTime, UnparsableTime}
    /\ CleanTimeStr(item) < t - STATE_RETENTION_DAYS * 86400

(* C35: when a bids or purchases poller loads its saved snapshot map, an
   entry is dropped iff its timestamp (end_time when present, otherwise
   updated_at) parses and is older than the current time less 60 days; an
   entry with no timestamp or an unparsable one is kept; a later cycle of
   the poller prunes nothing *)
C35_PrunedByAgeAtLoadOnly ==
    [][/\ (klass \in {"bids", "purchases"} /\ ~state_loaded /\ state_loaded'
           /\ store # NoBlob /\ store_log'.ops[1].ok) =>
             /\ DOMAIN cyc_prior'
                  = {id \in DOMAIN store[1].previous_data :
                        ~OlderThanRetention(store[1].previous_data[id], now')}
             /\ \A id \in DOMAIN cyc_prior' :
                   cyc_prior'[id] = store[1].previous_data[id]
       /\ (state_loaded /\ state_loaded') => cyc_prior' = previous_data]_vars

(* The saves the execution that ended has attempted *)
SavesOf(log) == {i \in DOMAIN log.ops : log.ops[i].op = "async_save"}

(* C36: when the save of the Store fails in a cycle of a bids, purchases or
   search poller, the save is not attempted again in that cycle and the
   cycle does not fail: what the cycle fired stands, the sorted list is
   returned, and the state in memory is the snapshot of this cycle, against
   which the next cycle of the same poller object diffs *)
C36_FailedSaveKeepsCycle ==
    [][/\ (state_loaded' /\ now' # now /\ ~cyc_saved') =>
             /\ Cardinality(SavesOf(store_log')) = 1
             /\ \A i \in SavesOf(store_log') :
                   i = Len(store_log'.ops) /\ ~store_log'.ops[i].ok
             /\ store' = store
             /\ klass = "bids" =>
                   /\ coordinator_data' = SortByEndTime(cyc_fetched')
                   /\ previous_data' = ItemMap(cyc_fetched')
                   /\ \A id \in DOMAIN cyc_lookups' :
                         cyc_lookups'[id].kind = "item"
                         /\ cyc_lookups'[id].listing_status \in {"Completed", "Ended"}
                         => \/ BagIn(Event("auction_won", id), events')
                            \/ BagIn(Event("auction_lost", id), events')
             /\ klass = "purchases" =>
                   /\ coordinator_data' = SortByPurchaseDate(cyc_fetched')
                   /\ previous_data' = ItemMap(cyc_fetched')
                   /\ \A id \in Ids(cyc_fetched') \ DOMAIN cyc_prior' :
                         BagIn(Event("new_purchase", id), events')
             /\ klass = "search" =>
                   /\ coordinator_data' = SortByEndTime(cyc_fetched')
                   /\ previous_item_ids' \subseteq cyc_prior_ids' \cup Ids(cyc_fetched')
                   /\ Cardinality(cyc_prior_ids' \cup Ids(cyc_fetched')) <= MaxHistory
                        => previous_item_ids' = cyc_prior_ids' \cup Ids(cyc_fetched')
                   /\ cyc_prior_ids' # {} =>
                        \A id \in Ids(cyc_fetched') \ cyc_prior_ids' :
                           BagIn(Event("new_search_result", id), events')
       /\ (state_loaded /\ state_loaded' /\ ~cyc_saved) =>
             /\ klass \in {"bids", "purchases"} => cyc_prior' = previous_data
             /\ klass = "search" => cyc_prior_ids' = previous_item_ids]_vars

(* Both saves of a poller failed and its second cycle diffed against the
   snapshot its first cycle left in memory *)
C36_Witness ==
    /\ state_loaded
    /\ ~cyc_saved
    /\ store = NoBlob
    /\ cyc_prev_fetched # <<>>
    /\ cyc_prior # EmptyMap
    /\ cyc_prior = ItemMap(cyc_prev_fetched[1])
    /\ events # EmptyBag

(* The cycle that ends looks item id up or resolves it *)
LooksUpOrResolves(id) ==
    \/ id \in DOMAIN cyc_lookups'
    \/ BagIn(Event("auction_won", id), events')
    \/ BagIn(Event("auction_lost", id), events')

(* C37 as stated: an item that vanishes from the bids list while its lookup
   reports a status that is not terminal is removed from the prior state in
   that cycle, and unless it reappears in a later bids list no later cycle
   issues a lookup for it or fires auction_won or auction_lost for it *)
C37_ForgottenForGood ==
    [][/\ \A id \in forgotten' : id \notin DOMAIN previous_data'
       /\ \A id \in forgotten : ~LooksUpOrResolves(id)]_vars

(* C37, amended: ... no later cycle of the same poller object issues a
   lookup for it or fires auction_won or auction_lost for it; the first
   cycle of a poller object built after a restart does so only if the saved
   state it loads still holds the item, and a cycle whose save succeeds
   leaves no such item in the saved state *)
C37_ForgottenByTheObject ==
    [][/\ \A id \in forgotten' : id \notin DOMAIN previous_data'
       /\ state_loaded => \A id \in forgotten : ~LooksUpOrResolves(id)
       /\ ~state_loaded =>
             \A id \in forgotten :
                LooksUpOrResolves(id) =>
                   /\ store # NoBlob
                   /\ id \in DOMAIN store[1].previous_data
                   /\ store_log'.ops[1].ok
                   /\ id \notin Ids(cyc_fetched')
       /\ cyc_saved' =>
             \A id \in forgotten' : id \notin DOMAIN store'[1].previous_data]_vars

(* A later cycle of the poller object that dropped an active listing has
   run without looking it up *)
C37_Witness ==
    \E id \in forgotten :
        /\ state_loaded
        /\ cyc_prev_fetched # <<>>
        /\ id \notin Ids(cyc_prev_fetched[1])
        /\ id \notin Ids(cyc_fetched)
        /\ id \notin DOMAIN cyc_lookups

(* How often the bag holds auction_won or auction_lost for item id *)
Resolutions(id, fired) ==
    CopiesIn(Event("auction_won", id), fired)
    + CopiesIn(Event("auction_lost", id), fired)

(* C38: a bids cycle issues exactly one get_item for each item of the prior
   state that the current list lacks and none for an item the list holds;
   each vanished item is resolved from its own lookup, whatever the lookups
   of the other vanished items returned: from the cached flag when its own
   lookup failed, from the final bidder when it found the listing ended,
   not at all when it found the listing active *)
C38_OneLookupEach ==
    [][(klass = "bids" /\ now' # now) =>
         \E ended \in {DOMAIN cyc_prior' \ Ids(cyc_fetched')} :
           /\ DOMAIN cyc_lookups' = ended
           /\ api_calls'["shopping"].count
                = api_calls["shopping"].count + Cardinality(ended)
           /\ \A id \in ended :
                 \E final_item \in {cyc_lookups'[id]} :
                   /\ final_item.kind # "item" =>
                        /\ Resolutions(id, events') = 1
                        /\ BagIn(Event("auction_won", id), events')
                             = cyc_prior'[id].is_high_bidder
                   /\ (final_item.kind = "item"
                       /\ final_item.listing_status \in {"Completed", "Ended"}) =>
                        Resolutions(id, events') = 1
                   /\ (final_item.kind = "item"
                       /\ final_item.listing_status \notin {"Completed", "Ended"}) =>
                        Resolutions(id, events') = 0
           /\ \A id \in ItemIds \ ended : Resolutions(id, events') = 0]_vars

(* Two items vanished in one cycle; the lookup of one failed and it was
   resolved from its cached flag, the lookup of the other found the listing
   ended and it was resolved too *)
C38_Witness ==
    \E id, other \in DOMAIN cyc_lookups :
        /\ klass = "bids"
        /\ id # other
        /\ cyc_lookups[id].kind # "item"
        /\ cyc_lookups[other].kind = "item"
        /\ cyc_lookups[other].listing_status \in {"Completed", "Ended"}
        /\ Resolutions(id, events) = 1
        /\ Resolutions(other, events) = 1

(* C39: a bid of the current list whose id is not in the prior state fires
   neither became_high_bidder nor outbid in that cycle, whatever its
   is_high_bidder flag; the only event of the cycle that can name it is
   auction_ending_soon *)
C39_NewBidOnlyEndingSoon ==
    klass = "bids" =>
        \A id \in Ids(cyc_fetched) \ DOMAIN cyc_prior :
            \A e \in BagToSet(events) :
                e.item_id = id => e.kind = "auction_ending_soon"

(* A cycle with a prior state fetched a bid it had not seen, which is the
   high bid and ends within the quarter of an hour, and fired
   auction_ending_soon for it *)
C39_Witness ==
    \E i \in DOMAIN cyc_fetched :
        /\ klass = "bids"
        /\ cyc_prior # EmptyMap
        /\ cyc_fetched[i].item_id \notin DOMAIN cyc_prior
        /\ cyc_fetched[i].is_high_bidder
        /\ BagIn(Event("auction_ending_soon", cyc_fetched[i].item_id), events)

(* The answer a page request got ends the loop of _fetch_my_ebay_list: the
   request failed, the answer reports no number of pages, or the number of
   the page has reached the number reported or the limit *)
EndsList(page) ==
    \/ page.status # "200"
    \/ page.total_pages = 0
    \/ page.page_number >= page.total_pages
    \/ page.page_number >= max_pages

(* The page requests of a call: those of one list are numbered from 1 on,
   at most max_pages of them, and the first answer that ends the list is
   the last one of that list *)
PagedInOrder(call) ==
    LET log == call.paged
        next == [i \in DOMAIN log |->
                    IF i < Len(log)
                    THEN [list_type |-> log[i + 1].list_type,
                          page_number |-> log[i + 1].page_number]
                    ELSE [list_type |-> call.list_type,
                          page_number |-> call.page_number]]
    IN /\ \A i \in DOMAIN log : log[i].page_number \in 1..max_pages
       /\ \A list_type \in {"BidList", "WatchList", "WonList"} :
             Cardinality({i \in DOMAIN log : log[i].list_type = list_type})
                <= max_pages
       /\ log # <<>> => log[1].page_number = 1
       /\ \A i \in DOMAIN log :
             IF EndsList(log[i])
             THEN \/ i = Len(log) /\ call.pc = "returned"
                  \/ /\ next[i].list_type # log[i].list_type
                     /\ next[i].page_number = 1
             ELSE /\ ~(i = Len(log) /\ call.pc = "returned")
                  /\ next[i].list_type = log[i].list_type
                  /\ next[i].page_number = log[i].page_number + 1
       /\ call.pc = "page" =>
             /\ call.page_number \in 1..max_pages
             /\ [i \in DOMAIN call.all_items |-> call.all_items[i].item_id]
                  = call.answers[ListKey(call.list_type)]
       /\ (call.pc = "returned" /\ ~call.from_cache) =>
             \A key \in ListKeys :
                [i \in DOMAIN call.result[1][key] |->
                    call.result[1][key][i].item_id] = call.answers[key]

(* C40: fetching one activity list always terminates and issues at most 10
   page requests, whatever number of pages the answers report; it stops at
   the first page that fails, that reports no number of pages, or whose
   number reaches the number reported, and returns the items of the pages
   parsed until then *)
C40_FetchStopsWithinTenPages ==
    /\ [](\A c \in Callers : PagedInOrder(client_calls[c]))
    /\ \A c \in Callers :
          (client_calls[c].pc = "page") ~> (client_calls[c].pc = "returned")

(* A call has returned whose bids list was cut at the page limit and holds
   the items of the ten pages read, and whose purchases list ended with the
   page that reached the reported total *)
C40_Witness ==
    \E c \in Callers :
        LET call == client_calls[c]
        IN /\ call.pc = "returned"
           /\ ~call.from_cache
           /\ Cardinality({i \in DOMAIN call.paged :
                              call.paged[i].list_type = "BidList"}) = max_pages
           /\ Len(call.result[1].bids) = max_pages
           /\ Cardinality({i \in DOMAIN call.paged :
                              call.paged[i].list_type = "WonList"}) = 3
====
